---- MODULE Spec2Model ----
(***************************************************************************)
(* A model of the election-odds ingestion pipeline:                        *)
(*   scripts/storage.py   the SQLite snapshot store and checkpoint ledger  *)
(*   scripts/backfill.py  the window scheduler (BackfillJob)               *)
(*   scripts/backfill_electionbettingodds.py  the date-range backfill      *)
(*                                                                         *)
(* Tables are sets of rows.  The UNIQUE constraints of the schema are not  *)
(* built into the representation: an INSERT that would break one raises    *)
(* IntegrityError, as SQLite does, and uniqueness is something to check.   *)
(* Optional (nullable) values are None == <<>> or Some(v) == <<v>>.        *)
(* The created_at / updated_at columns hold wall-clock readings that no    *)
(* operation reads back; they are left out of the rows.                    *)
(***************************************************************************)
EXTENDS Integers, Sequences, FiniteSets, TLC

VARIABLES
    markets,            \* table markets
    contracts,          \* table contracts
    price_snapshots,    \* table price_snapshots
    sync_checkpoints,   \* table sync_checkpoints
    seq,                \* sqlite_sequence: last AUTOINCREMENT id per table
    last,               \* the last sequential call: operation, arguments, result
    first_id,           \* <<op, key, id>> of every call that returned was_inserted = true
    gw,                 \* a call of generate_windows: its arguments and locals
    workers,            \* the threads that run store calls or fetch tasks
    job,                \* the process that runs a backfill command
    aggregator          \* the MarketAggregator: its results and the locals of its call

vars == <<markets, contracts, price_snapshots, sync_checkpoints, seq, last, first_id,
          gw, aggregator, workers, job>>

None == <<>>
Some(v) == <<v>>

NoRow == {}

(***************************************************************************)
(* Bounds of the model.                                                    *)
(***************************************************************************)
\* rows the store may hold over its three tables (caps the AUTOINCREMENT ids)
MaxRows == 3

(***************************************************************************)
(* Inputs.                                                                 *)
(***************************************************************************)
Sources == {"PredictIt", "Kalshi"}
MarketIds == {"m1"}
ContractIds == {"c1"}
SnapshotTimes == {"t1", "t2"}

\* upsert_market's value arguments; the second leaves every default None
MarketVals ==
    { [market_name |-> "Winner 2028", category |-> Some("politics"), status |-> Some("open"),
       url |-> Some("u"), total_volume |-> Some(100), end_date |-> Some("2028-11-07")],
      [market_name |-> "Winner", category |-> None, status |-> None,
       url |-> None, total_volume |-> None, end_date |-> None] }

ContractVals ==
    { [contract_name |-> "Trump", short_name |-> Some("DT")],
      [contract_name |-> "Donald Trump", short_name |-> None] }

\* prices in hundredths; raw_data is the dict handed in (None or a dict)
SnapshotVals ==
    { [yes_price |-> Some(30), no_price |-> None, yes_bid |-> None, yes_ask |-> None,
       volume |-> None, raw_data |-> None],
      [yes_price |-> Some(45), no_price |-> Some(52), yes_bid |-> Some(44), yes_ask |-> Some(46),
       volume |-> Some(7), raw_data |-> Some("d")] }

(***************************************************************************)
(* scripts/storage.py: the three upserts.  Each is a SELECT of the row id  *)
(* by identity key followed by an UPDATE or an INSERT; the SELECT runs     *)
(* outside any transaction (sqlite3 opens one at the first write), so the  *)
(* two halves are separate operators and the upsert of a sequential        *)
(* caller is their composition.                                            *)
(***************************************************************************)

\* json.dumps(raw_data) if raw_data else None
json_dumps(raw_data) == IF raw_data = None THEN None ELSE Some(<<"json", raw_data[1]>>)

\* "SELECT id FROM markets WHERE source = ? AND market_id = ?"; fetchone()
select_market(tbl, source, market_id) ==
    {r \in tbl : r.source = source /\ r.market_id = market_id}

\* UNIQUE(source, market_id): may a row with this key be inserted?
markets_unique(tbl, source, market_id) ==
    \A r \in tbl : ~(r.source = source /\ r.market_id = market_id)

\* UNIQUE(source, market_id, contract_id)
contracts_unique(tbl, source, market_id, contract_id) ==
    \A r \in tbl : ~(r.source = source /\ r.market_id = market_id
                      /\ r.contract_id = contract_id)

\* UNIQUE(source, market_id, contract_id, snapshot_time)
price_snapshots_unique(tbl, source, market_id, contract_id, snapshot_time) ==
    \A r \in tbl : ~(r.source = source /\ r.market_id = market_id
                      /\ r.contract_id = contract_id /\ r.snapshot_time = snapshot_time)

\* the row a cursor.fetchone() returns from the rows selected
fetchone(rows) == CHOOSE r \in rows : \A q \in rows : r.id <= q.id

MarketRow(id, source, market_id, v) ==
    [id |-> id, source |-> source, market_id |-> market_id,
     market_name |-> v.market_name, category |-> v.category, status |-> v.status,
     url |-> v.url, total_volume |-> v.total_volume, end_date |-> v.end_date]

\* mutant: an UPDATE that keeps the stored value where the argument is None
write_market_coalesce(tbl, sq, existing, source, market_id, v) ==
    IF existing # NoRow
    THEN [tbl |-> {IF r.source = source /\ r.market_id = market_id
                   THEN [r EXCEPT !.market_name = v.market_name,
                                  !.category = IF v.category = None THEN @ ELSE v.category,
                                  !.status = IF v.status = None THEN @ ELSE v.status,
                                  !.url = IF v.url = None THEN @ ELSE v.url,
                                  !.total_volume = IF v.total_volume = None THEN @ ELSE v.total_volume,
                                  !.end_date = IF v.end_date = None THEN @ ELSE v.end_date]
                   ELSE r : r \in tbl},
          seq |-> sq, id |-> fetchone(existing).id, inserted |-> FALSE, error |-> None]
    ELSE IF ~markets_unique(tbl, source, market_id)
    THEN [tbl |-> tbl, seq |-> sq, id |-> 0, inserted |-> FALSE,
          error |-> Some("IntegrityError")]
    ELSE [tbl |-> tbl \cup {MarketRow(sq + 1, source, market_id, v)},
          seq |-> sq + 1, id |-> sq + 1, inserted |-> TRUE, error |-> None]

\* the UPDATE or INSERT of upsert_market, given what its SELECT returned
write_market(tbl, sq, existing, source, market_id, v) ==
    IF existing # NoRow
    THEN [tbl |-> {IF r.source = source /\ r.market_id = market_id
                   THEN MarketRow(r.id, source, market_id, v) ELSE r : r \in tbl},
          seq |-> sq, id |-> fetchone(existing).id, inserted |-> FALSE, error |-> None]
    ELSE IF ~markets_unique(tbl, source, market_id)
    THEN [tbl |-> tbl, seq |-> sq, id |-> 0, inserted |-> FALSE,
          error |-> Some("IntegrityError")]
    ELSE [tbl |-> tbl \cup {MarketRow(sq + 1, source, market_id, v)},
          seq |-> sq + 1, id |-> sq + 1, inserted |-> TRUE, error |-> None]

upsert_market(tbl, sq, source, market_id, v) ==
    write_market(tbl, sq, select_market(tbl, source, market_id), source, market_id, v)

select_contract(tbl, source, market_id, contract_id) ==
    {r \in tbl : r.source = source /\ r.market_id = market_id /\ r.contract_id = contract_id}

ContractRow(id, source, market_id, contract_id, v) ==
    [id |-> id, source |-> source, market_id |-> market_id, contract_id |-> contract_id,
     contract_name |-> v.contract_name, short_name |-> v.short_name]

write_contract(tbl, sq, existing, source, market_id, contract_id, v) ==
    IF existing # NoRow
    THEN [tbl |-> {IF r.source = source /\ r.market_id = market_id /\ r.contract_id = contract_id
                   THEN ContractRow(r.id, source, market_id, contract_id, v) ELSE r : r \in tbl},
          seq |-> sq, id |-> fetchone(existing).id, inserted |-> FALSE, error |-> None]
    ELSE IF ~contracts_unique(tbl, source, market_id, contract_id)
    THEN [tbl |-> tbl, seq |-> sq, id |-> 0, inserted |-> FALSE,
          error |-> Some("IntegrityError")]
    ELSE [tbl |-> tbl \cup {ContractRow(sq + 1, source, market_id, contract_id, v)},
          seq |-> sq + 1, id |-> sq + 1, inserted |-> TRUE, error |-> None]

upsert_contract(tbl, sq, source, market_id, contract_id, v) ==
    write_contract(tbl, sq, select_contract(tbl, source, market_id, contract_id),
                   source, market_id, contract_id, v)

\* mutant: the snapshot looked up without its snapshot_time
select_price_snapshot_no_time(tbl, source, market_id, contract_id, snapshot_time) ==
    {r \in tbl : r.source = source /\ r.market_id = market_id /\ r.contract_id = contract_id}

\* "SELECT id FROM price_snapshots WHERE source = ? AND market_id = ? AND contract_id = ?
\*  AND snapshot_time = ?"
select_price_snapshot(tbl, source, market_id, contract_id, snapshot_time) ==
    {r \in tbl : r.source = source /\ r.market_id = market_id
                 /\ r.contract_id = contract_id /\ r.snapshot_time = snapshot_time}

SnapshotRow(id, source, market_id, contract_id, snapshot_time, v) ==
    [id |-> id, source |-> source, market_id |-> market_id, contract_id |-> contract_id,
     snapshot_time |-> snapshot_time,
     yes_price |-> v.yes_price, no_price |-> v.no_price, yes_bid |-> v.yes_bid,
     yes_ask |-> v.yes_ask, volume |-> v.volume, raw_data |-> json_dumps(v.raw_data)]

write_price_snapshot(tbl, sq, existing, source, market_id, contract_id, snapshot_time, v) ==
    IF existing # NoRow
    THEN [tbl |-> {IF r.source = source /\ r.market_id = market_id
                      /\ r.contract_id = contract_id /\ r.snapshot_time = snapshot_time
                   THEN SnapshotRow(r.id, source, market_id, contract_id, snapshot_time, v)
                   ELSE r : r \in tbl},
          seq |-> sq, id |-> fetchone(existing).id, inserted |-> FALSE, error |-> None]
    ELSE IF ~price_snapshots_unique(tbl, source, market_id, contract_id, snapshot_time)
    THEN [tbl |-> tbl, seq |-> sq, id |-> 0, inserted |-> FALSE,
          error |-> Some("IntegrityError")]
    ELSE [tbl |-> tbl \cup {SnapshotRow(sq + 1, source, market_id, contract_id, snapshot_time, v)},
          seq |-> sq + 1, id |-> sq + 1, inserted |-> TRUE, error |-> None]

upsert_price_snapshot(tbl, sq, source, market_id, contract_id, snapshot_time, v) ==
    write_price_snapshot(tbl, sq,
        select_price_snapshot(tbl, source, market_id, contract_id, snapshot_time),
        source, market_id, contract_id, snapshot_time, v)

(***************************************************************************)
(* SpecStore: one caller at a time issues upserts with any arguments.      *)
(* last keeps the call (op, key, v), what it returned (id, inserted), the  *)
(* rows its key had before (pre) and a tick that tells calls apart.        *)
(***************************************************************************)
NoCall == [op |-> "none", key |-> <<>>, v |-> <<>>, id |-> 0, inserted |-> FALSE,
           pre |-> {}, tick |-> 0]

StoreRows == Cardinality(markets) + Cardinality(contracts) + Cardinality(price_snapshots)

EmptySeq == [markets |-> 0, contracts |-> 0, price_snapshots |-> 0, sync_checkpoints |-> 0]

InitStore ==
    /\ markets = {}
    /\ contracts = {}
    /\ price_snapshots = {}
    /\ sync_checkpoints = {}
    /\ seq = EmptySeq
    /\ last = NoCall
    /\ first_id = {}
    /\ gw = NoCall /\ aggregator = NoCall
    /\ workers = <<>>
    /\ job = NoCall

Called(op, key, v, res, pre) ==
    /\ last' = [op |-> op, key |-> key, v |-> v, id |-> res.id, inserted |-> res.inserted,
                pre |-> pre, tick |-> 1 - last.tick]
    /\ first_id' = IF res.inserted THEN first_id \cup {<<op, key, res.id>>} ELSE first_id

CallUpsertMarket ==
    \E s \in Sources, m \in MarketIds, v \in MarketVals :
        LET res == upsert_market(markets, seq.markets, s, m, v) IN
        /\ StoreRows < MaxRows \/ select_market(markets, s, m) # NoRow
        /\ markets' = res.tbl
        /\ seq' = [seq EXCEPT !.markets = res.seq]
        /\ Called("upsert_market", <<s, m>>, v, res, select_market(markets, s, m))
        /\ UNCHANGED <<contracts, price_snapshots, sync_checkpoints, gw, aggregator, workers, job>>

CallUpsertContract ==
    \E s \in Sources, m \in MarketIds, c \in ContractIds, v \in ContractVals :
        LET res == upsert_contract(contracts, seq.contracts, s, m, c, v) IN
        /\ StoreRows < MaxRows \/ select_contract(contracts, s, m, c) # NoRow
        /\ contracts' = res.tbl
        /\ seq' = [seq EXCEPT !.contracts = res.seq]
        /\ Called("upsert_contract", <<s, m, c>>, v, res, select_contract(contracts, s, m, c))
        /\ UNCHANGED <<markets, price_snapshots, sync_checkpoints, gw, aggregator, workers, job>>

CallUpsertPriceSnapshot ==
    \E s \in Sources, m \in MarketIds, c \in ContractIds, t \in SnapshotTimes,
       v \in SnapshotVals :
        LET res == upsert_price_snapshot(price_snapshots, seq.price_snapshots, s, m, c, t, v) IN
        /\ StoreRows < MaxRows \/ select_price_snapshot(price_snapshots, s, m, c, t) # NoRow
        /\ price_snapshots' = res.tbl
        /\ seq' = [seq EXCEPT !.price_snapshots = res.seq]
        /\ Called("upsert_price_snapshot", <<s, m, c, t>>, v, res,
                  select_price_snapshot(price_snapshots, s, m, c, t))
        /\ UNCHANGED <<markets, contracts, sync_checkpoints, gw, aggregator, workers, job>>

NextStore == CallUpsertMarket \/ CallUpsertContract \/ CallUpsertPriceSnapshot

SpecStore == InitStore /\ [][NextStore]_vars

(***************************************************************************)
(* Claims on the sequential store.                                         *)
(***************************************************************************)
UpsertOps == {"upsert_market", "upsert_contract", "upsert_price_snapshot"}

\* the rows of a call's table that carry the call's identity key
RowsFor(op, key, M, C, P) ==
    CASE op = "upsert_market" ->
            {r \in M : <<r.source, r.market_id>> = key}
      [] op = "upsert_contract" ->
            {r \in C : <<r.source, r.market_id, r.contract_id>> = key}
      [] op = "upsert_price_snapshot" ->
            {r \in P : <<r.source, r.market_id, r.contract_id, r.snapshot_time>> = key}

TableFor(op, M, C, P) ==
    CASE op = "upsert_market" -> M
      [] op = "upsert_contract" -> C
      [] op = "upsert_price_snapshot" -> P

\* the row the call's key must hold once the call's values are written to it
RowWritten(op, id, key, v) ==
    CASE op = "upsert_market" ->
            [id |-> id, source |-> key[1], market_id |-> key[2],
             market_name |-> v.market_name, category |-> v.category, status |-> v.status,
             url |-> v.url, total_volume |-> v.total_volume, end_date |-> v.end_date]
      [] op = "upsert_contract" ->
            [id |-> id, source |-> key[1], market_id |-> key[2], contract_id |-> key[3],
             contract_name |-> v.contract_name, short_name |-> v.short_name]
      [] op = "upsert_price_snapshot" ->
            [id |-> id, source |-> key[1], market_id |-> key[2], contract_id |-> key[3],
             snapshot_time |-> key[4], yes_price |-> v.yes_price, no_price |-> v.no_price,
             yes_bid |-> v.yes_bid, yes_ask |-> v.yes_ask, volume |-> v.volume,
             raw_data |-> IF v.raw_data = None THEN None ELSE Some(<<"json", v.raw_data[1]>>)]

\* C1: a second upsert_price_snapshot with the key and the values of the call
\* before it leaves exactly one row for the key, returns was_inserted = false
\* and leaves the number of snapshot rows as the first call left it.
C1_SnapshotUpsertIdempotent ==
    [][ ( /\ last.op = "upsert_price_snapshot"
          /\ last'.op = "upsert_price_snapshot"
          /\ last'.tick # last.tick
          /\ last'.key = last.key
          /\ last'.v = last.v )
        => ( /\ Cardinality(RowsFor("upsert_price_snapshot", last'.key,
                                    markets', contracts', price_snapshots')) = 1
             /\ last'.inserted = FALSE
             /\ Cardinality(price_snapshots') = Cardinality(price_snapshots) ) ]_vars

\* a snapshot was re-submitted with the values its row already had
C1_Witness ==
    /\ last.op = "upsert_price_snapshot"
    /\ last.pre # {}
    /\ last.pre = RowsFor("upsert_price_snapshot", last.key, markets, contracts, price_snapshots)
    /\ Cardinality(price_snapshots) >= 2

\* C2: an upsert returns was_inserted = true exactly when its key had no row
\* before the call; when the key had a row, no row is added, the row holds the
\* call's values in every mutable field (None included), and the id returned
\* is the id returned when the key was first inserted.
C2_UpsertSemantics ==
    [][ (last'.tick # last.tick /\ last'.op \in UpsertOps)
        => LET op == last'.op
               key == last'.key
               before == RowsFor(op, key, markets, contracts, price_snapshots)
               after == RowsFor(op, key, markets', contracts', price_snapshots')
           IN  /\ last'.inserted <=> (before = {})
               /\ before # {} =>
                     /\ Cardinality(TableFor(op, markets', contracts', price_snapshots'))
                          = Cardinality(TableFor(op, markets, contracts, price_snapshots))
                     /\ after = {RowWritten(op, last'.id, key, last'.v)}
                     /\ <<op, key, last'.id>> \in first_id
                     /\ \A t \in first_id : (t[1] = op /\ t[2] = key) => t[3] = last'.id
      ]_vars

\* a market that had a category was upserted again with category None
C2_Witness ==
    /\ last.op = "upsert_market"
    /\ last.inserted = FALSE
    /\ \E r \in last.pre : r.category # None
    /\ last.v.category = None
    /\ \E r \in markets : r.id = last.id /\ r.category = None

(***************************************************************************)
(* scripts/storage.py: the checkpoint ledger.                              *)
(***************************************************************************)
\* datetime.now(timezone.utc).isoformat(): some non-null reading of the clock
now == Some("now")

\* "SELECT id, status FROM sync_checkpoints WHERE source = ? AND sync_type = ?
\*  AND window_start = ? AND window_end = ?"
select_checkpoint(tbl, source, sync_type, window_start, window_end) ==
    {r \in tbl : r.source = source /\ r.sync_type = sync_type
                 /\ r.window_start = window_start /\ r.window_end = window_end}

\* UNIQUE(source, sync_type, window_start, window_end)
sync_checkpoints_unique(tbl, source, sync_type, window_start, window_end) ==
    \A r \in tbl : ~(r.source = source /\ r.sync_type = sync_type
                      /\ r.window_start = window_start /\ r.window_end = window_end)

\* INSERT ... VALUES (?, ?, ?, ?, 'pending', ?): the other columns take their defaults
CheckpointRow(id, source, sync_type, window_start, window_end) ==
    [id |-> id, source |-> source, sync_type |-> sync_type,
     window_start |-> window_start, window_end |-> window_end, status |-> "pending",
     records_fetched |-> 0, records_inserted |-> 0, records_updated |-> 0,
     records_deduped |-> 0, error_message |-> None, started_at |-> None,
     completed_at |-> None]

\* mutant: a reset that leaves the stored error and the counters of the failed run
reset_checkpoint_keeps_error(r) ==
    [r EXCEPT !.status = "pending", !.started_at = None, !.completed_at = None]

\* "Reset for retry": UPDATE sync_checkpoints SET status = 'pending', ... WHERE id = ?
reset_checkpoint(r) ==
    [r EXCEPT !.status = "pending", !.started_at = None, !.completed_at = None,
              !.records_fetched = 0, !.records_inserted = 0, !.records_updated = 0,
              !.records_deduped = 0, !.error_message = None]

\* mutant: no early return for a completed row
write_checkpoint_resets_completed(tbl, sq, existing, source, sync_type, window_start, window_end) ==
    IF existing # NoRow
    THEN [tbl |-> {IF r.id = fetchone(existing).id THEN reset_checkpoint(r) ELSE r : r \in tbl},
          seq |-> sq, id |-> fetchone(existing).id, error |-> None]
    ELSE IF ~sync_checkpoints_unique(tbl, source, sync_type, window_start, window_end)
    THEN [tbl |-> tbl, seq |-> sq, id |-> 0, error |-> Some("IntegrityError")]
    ELSE [tbl |-> tbl \cup {CheckpointRow(sq + 1, source, sync_type, window_start, window_end)},
          seq |-> sq + 1, id |-> sq + 1, error |-> None]

\* what create_sync_checkpoint does after its SELECT returned existing (id and
\* status as read then): return, reset by id, or insert
write_checkpoint(tbl, sq, existing, source, sync_type, window_start, window_end) ==
    IF existing # NoRow
    THEN IF fetchone(existing).status = "completed"
         THEN [tbl |-> tbl, seq |-> sq, id |-> fetchone(existing).id, error |-> None]
         ELSE [tbl |-> {IF r.id = fetchone(existing).id THEN reset_checkpoint(r) ELSE r
                        : r \in tbl},
               seq |-> sq, id |-> fetchone(existing).id, error |-> None]
    ELSE IF ~sync_checkpoints_unique(tbl, source, sync_type, window_start, window_end)
    THEN [tbl |-> tbl, seq |-> sq, id |-> 0, error |-> Some("IntegrityError")]
    ELSE [tbl |-> tbl \cup {CheckpointRow(sq + 1, source, sync_type, window_start, window_end)},
          seq |-> sq + 1, id |-> sq + 1, error |-> None]

create_sync_checkpoint(tbl, sq, source, sync_type, window_start, window_end) ==
    write_checkpoint(tbl, sq,
        select_checkpoint(tbl, source, sync_type, window_start, window_end),
        source, sync_type, window_start, window_end)

\* update_sync_checkpoint's arguments left at their default
NoUpdate == [status |-> None, records_fetched |-> None, records_inserted |-> None,
             records_updated |-> None, records_deduped |-> None, error_message |-> None]

\* mutant: every status change stamps completed_at
update_row_stamps_every_status(r, a) ==
    [r EXCEPT
        !.status = IF a.status # None /\ a.status # Some("") THEN a.status[1] ELSE @,
        !.started_at = IF a.status = Some("running") THEN now ELSE @,
        !.completed_at = IF a.status # None THEN now ELSE @,
        !.records_fetched = IF a.records_fetched # None THEN a.records_fetched[1] ELSE @,
        !.records_inserted = IF a.records_inserted # None THEN a.records_inserted[1] ELSE @,
        !.records_updated = IF a.records_updated # None THEN a.records_updated[1] ELSE @,
        !.records_deduped = IF a.records_deduped # None THEN a.records_deduped[1] ELSE @,
        !.error_message = IF a.error_message # None THEN a.error_message ELSE @]

\* the SET list built from the arguments, applied to the row with the id
update_row(r, a) ==
    [r EXCEPT
        !.status = IF a.status # None /\ a.status # Some("") THEN a.status[1] ELSE @,
        !.started_at = IF a.status = Some("running") THEN now ELSE @,
        !.completed_at = IF a.status \in {Some("completed"), Some("failed")} THEN now ELSE @,
        !.records_fetched = IF a.records_fetched # None THEN a.records_fetched[1] ELSE @,
        !.records_inserted = IF a.records_inserted # None THEN a.records_inserted[1] ELSE @,
        !.records_updated = IF a.records_updated # None THEN a.records_updated[1] ELSE @,
        !.records_deduped = IF a.records_deduped # None THEN a.records_deduped[1] ELSE @,
        !.error_message = IF a.error_message # None THEN a.error_message ELSE @]

\* mutant: a checkpoint that reaches completed is pruned from the ledger
update_sync_checkpoint_prunes_completed(tbl, checkpoint_id, a) ==
    {IF r.id = checkpoint_id THEN update_row(r, a) ELSE r : r \in tbl}
        \ {update_row(r, a) : r \in {x \in tbl : x.id = checkpoint_id
                                                 /\ a.status = Some("completed")}}

update_sync_checkpoint(tbl, checkpoint_id, a) ==
    {IF r.id = checkpoint_id THEN update_row(r, a) ELSE r : r \in tbl}

\* get_pending_checkpoints(source, sync_type): None leaves a filter out
\* mutant: a running checkpoint is not pending
get_pending_checkpoints_without_running(tbl, source, sync_type) ==
    {r \in tbl : /\ r.status \in {"pending", "failed"}
                 /\ (source # None => r.source = source[1])
                 /\ (sync_type # None => r.sync_type = sync_type[1])}

get_pending_checkpoints(tbl, source, sync_type) ==
    {r \in tbl : /\ r.status \in {"pending", "failed", "running"}
                 /\ (source # None => r.source = source[1])
                 /\ (sync_type # None => r.sync_type = sync_type[1])}

get_completed_checkpoints(tbl, source, sync_type) ==
    {r \in tbl : /\ r.status = "completed"
                 /\ (source # None => r.source = source[1])
                 /\ (sync_type # None => r.sync_type = sync_type[1])}

(***************************************************************************)
(* SpecLedger: one caller at a time issues ledger calls with any           *)
(* arguments; last.tick counts them.                                       *)
(***************************************************************************)
\* ledger calls in one behaviour
MaxLedgerCalls == 5

SyncTypes == {"backfill", "incremental"}

\* natural keys that differ from the first in one component each
CheckpointKeys ==
    { <<"PredictIt", "backfill", "d0", "d1">>,
      <<"Kalshi", "backfill", "d0", "d1">>,
      <<"PredictIt", "incremental", "d0", "d1">>,
      <<"PredictIt", "backfill", "d1", "d2">>,
      <<"PredictIt", "backfill", "d0", "d2">> }

\* the argument shapes of the callers: status only, completion with counts,
\* failure with the error and the partial counts, a count alone
UpdateArgs ==
    { [NoUpdate EXCEPT !.status = Some("running")],
      [NoUpdate EXCEPT !.status = Some("completed"), !.records_fetched = Some(2),
                       !.records_inserted = Some(1), !.records_updated = Some(0),
                       !.records_deduped = Some(1)],
      [NoUpdate EXCEPT !.status = Some("failed"), !.error_message = Some("IOError: x"),
                       !.records_fetched = Some(1), !.records_inserted = Some(1),
                       !.records_updated = Some(0), !.records_deduped = Some(0)],
      [NoUpdate EXCEPT !.records_fetched = Some(3)] }

InitLedger == InitStore

CallCreateCheckpoint ==
    \E k \in CheckpointKeys :
        LET res == create_sync_checkpoint(sync_checkpoints, seq.sync_checkpoints,
                                          k[1], k[2], k[3], k[4]) IN
        /\ last.tick < MaxLedgerCalls
        /\ sync_checkpoints' = res.tbl
        /\ seq' = [seq EXCEPT !.sync_checkpoints = res.seq]
        /\ last' = [op |-> "create_sync_checkpoint", key |-> k, v |-> <<>>, id |-> res.id,
                    inserted |-> FALSE,
                    pre |-> select_checkpoint(sync_checkpoints, k[1], k[2], k[3], k[4]),
                    tick |-> last.tick + 1]
        /\ UNCHANGED <<markets, contracts, price_snapshots, first_id, gw, aggregator, workers, job>>

CallUpdateCheckpoint ==
    \E id \in 1..seq.sync_checkpoints, a \in UpdateArgs :
        /\ last.tick < MaxLedgerCalls
        /\ sync_checkpoints' = update_sync_checkpoint(sync_checkpoints, id, a)
        /\ last' = [op |-> "update_sync_checkpoint", key |-> <<id>>, v |-> a, id |-> id,
                    inserted |-> FALSE,
                    pre |-> {r \in sync_checkpoints : r.id = id},
                    tick |-> last.tick + 1]
        /\ UNCHANGED <<markets, contracts, price_snapshots, seq, first_id, gw, aggregator, workers, job>>

NextLedger == CallCreateCheckpoint \/ CallUpdateCheckpoint

SpecLedger == InitLedger /\ [][NextLedger]_vars

(***************************************************************************)
(* Claims on the sequential ledger.                                        *)
(***************************************************************************)
KeyOfCheckpoint(r) == <<r.source, r.sync_type, r.window_start, r.window_end>>

\* C6: create_sync_checkpoint on a natural key whose row is completed returns
\* that row's id and changes no field of that row nor any other row.
C6_CompletedReturnedUnchanged ==
    [][ (last'.tick # last.tick /\ last'.op = "create_sync_checkpoint")
        => \A r \in sync_checkpoints :
              (KeyOfCheckpoint(r) = last'.key /\ r.status = "completed")
              => (last'.id = r.id /\ sync_checkpoints' = sync_checkpoints) ]_vars

\* create was called on a completed row that holds counts, beside another row
C6_Witness ==
    /\ last.op = "create_sync_checkpoint"
    /\ \E r \in last.pre : r.status = "completed" /\ r.records_fetched > 0
                           /\ r.completed_at # None
    /\ Cardinality(sync_checkpoints) >= 2

\* C7: create_sync_checkpoint on a key whose row is pending, running or failed
\* returns the row's id and leaves it pending with the four counters 0 and
\* error_message, started_at and completed_at cleared; on a key with no row it
\* inserts exactly one row, pending with zero counters, and returns its id.
C7_CreateResetsOrInserts ==
    [][ (last'.tick # last.tick /\ last'.op = "create_sync_checkpoint")
        => LET k == last'.key
               before == {r \in sync_checkpoints : KeyOfCheckpoint(r) = k}
           IN  /\ \A r \in before :
                     r.status \in {"pending", "running", "failed"}
                     => /\ last'.id = r.id
                        /\ CheckpointRow(r.id, k[1], k[2], k[3], k[4]) \in sync_checkpoints'
                        /\ Cardinality(sync_checkpoints') = Cardinality(sync_checkpoints)
               /\ before = {}
                     => /\ last'.id \notin {r.id : r \in sync_checkpoints}
                        /\ sync_checkpoints' = sync_checkpoints \cup
                              {CheckpointRow(last'.id, k[1], k[2], k[3], k[4])}
                        /\ Cardinality(sync_checkpoints') = Cardinality(sync_checkpoints) + 1
      ]_vars

\* create was called on a failed row that held an error and counts
C7_Witness ==
    /\ last.op = "create_sync_checkpoint"
    /\ \E r \in last.pre : /\ r.status = "failed" /\ r.error_message # None
                           /\ r.records_fetched > 0 /\ r.started_at # None
                           /\ \E q \in sync_checkpoints :
                                 q.id = r.id /\ q.status = "pending" /\ q.error_message = None

(***************************************************************************)
(* scripts/backfill.py: generate_windows.  Datetimes of one time zone are  *)
(* integers (days); a timedelta is an integer.  The while loop runs one    *)
(* iteration per step, so a call that does not return is a behaviour.      *)
(***************************************************************************)
\* the last day of the date ranges
MaxDay == 7
\* the largest window size
MaxSize == 3

Min(a, b) == IF a < b THEN a ELSE b

\* mutant: the last window not cut at end_date
window_end_untruncated(current, window_size, end_date) == current + window_size

\* window_end = min(current + window_size, end_date)
window_end_of(current, window_size, end_date) == Min(current + window_size, end_date)

\* one iteration of "while current < end_date"
gw_iterate(g) ==
    [g EXCEPT !.windows = Append(@, <<g.current, window_end_of(g.current, g.size, g.end_date)>>),
              !.current = window_end_of(g.current, g.size, g.end_date)]

\* the whole call, for callers that pass a positive window size
RECURSIVE gw_run(_)
gw_run(g) == IF g.current < g.end_date THEN gw_run(gw_iterate(g)) ELSE g.windows

generate_windows(start_date, end_date, window_size) ==
    gw_run([start_date |-> start_date, end_date |-> end_date, size |-> window_size,
            current |-> start_date, windows |-> <<>>, pc |-> "loop"])

HoursPerDay == 24

\* parse_window: a window string is <<int(window_str[:-1]), window_str[-1]>>;
\* the timedelta, in days, of '<n>d' and of '<n>h', or None for the ValueError
\* of another suffix
parse_window(window_str) ==
    CASE window_str[2] = "d" -> Some(window_str[1])
      [] window_str[2] = "h" -> Some(window_str[1] \div HoursPerDay)
      [] OTHER -> None

\* the --window arguments: '0d' .. '<MaxSize>d', '0h', '24h', and '1w'
WindowStrs == {<<n, "d">> : n \in 0..MaxSize} \cup {<<0, "h">>, <<HoursPerDay, "h">>, <<1, "w">>}

InitWindows ==
    /\ markets = {} /\ contracts = {} /\ price_snapshots = {} /\ sync_checkpoints = {}
    /\ seq = EmptySeq /\ last = NoCall /\ first_id = {} /\ workers = <<>> /\ job = NoCall
    /\ aggregator = NoCall
    /\ \E a \in 0..MaxDay, b \in 0..MaxDay, window_str \in WindowStrs :
          /\ parse_window(window_str) # None
          /\ gw = [start_date |-> a, end_date |-> b, size |-> parse_window(window_str)[1],
                   current |-> a, windows |-> <<>>, pc |-> "loop", unlisted |-> 0]

\* the loop body.  Past MaxDay + 1 windows the iterations go on but their
\* windows are no longer listed (a size of 0 never advances current);
\* unlisted counts them modulo 2
GwIterate ==
    /\ gw.pc = "loop"
    /\ gw.current < gw.end_date
    /\ gw' = IF Len(gw.windows) <= MaxDay THEN gw_iterate(gw)
             ELSE [gw EXCEPT !.current = gw_iterate(gw).current, !.unlisted = 1 - @]
    /\ UNCHANGED <<markets, contracts, price_snapshots, sync_checkpoints, seq, last,
                   first_id, workers, job, aggregator>>

\* "return windows"
GwReturn ==
    /\ gw.pc = "loop"
    /\ ~(gw.current < gw.end_date)
    /\ gw' = [gw EXCEPT !.pc = "returned"]
    /\ UNCHANGED <<markets, contracts, price_snapshots, sync_checkpoints, seq, last,
                   first_id, workers, job, aggregator>>

NextWindows == GwIterate \/ GwReturn

SpecWindows == InitWindows /\ [][NextWindows]_vars

\* the thread that called generate_windows keeps running
SpecWindowsFair == SpecWindows /\ WF_vars(NextWindows)

\* C9: for start < end and a positive size the windows returned are in
\* increasing order, start at start, end at end, each ends where the next
\* starts, all but the last have length size, the last has a length in (0, size].
C9_WindowsCoverRange ==
    (gw.pc = "returned" /\ gw.start_date < gw.end_date /\ gw.size > 0)
    => LET ws == gw.windows
           n == Len(ws)
       IN  /\ n >= 1
           /\ ws[1][1] = gw.start_date
           /\ ws[n][2] = gw.end_date
           /\ \A i \in 1..(n - 1) : /\ ws[i][2] = ws[i + 1][1]
                                    /\ ws[i][1] < ws[i + 1][1]
                                    /\ ws[i][2] - ws[i][1] = gw.size
           /\ ws[n][2] - ws[n][1] > 0
           /\ ws[n][2] - ws[n][1] <= gw.size

\* a range of 7 days with size 2 returned windows of lengths 2, 2, 2, 1
C9_Witness ==
    /\ gw.pc = "returned"
    /\ gw.start_date = 0 /\ gw.end_date = 7 /\ gw.size = 2
    /\ gw.windows = << <<0, 2>>, <<2, 4>>, <<4, 6>>, <<6, 7>> >>

(***************************************************************************)
(* SpecRace: two threads (two fetch tasks of a ThreadPoolExecutor, or two  *)
(* processes on one database file) each make one store call.  Every call   *)
(* opens its own connection: its SELECT is one step, its UPDATE or INSERT  *)
(* with the commit is another, and the other thread may run in between.    *)
(* The store starts empty or with one row per table.                       *)
(***************************************************************************)
Threads == {1, 2}

RaceOps == {"upsert_market", "upsert_contract", "upsert_price_snapshot",
            "create_sync_checkpoint"}

RaceKeys(op) ==
    CASE op = "upsert_market" -> Sources \X MarketIds
      [] op = "upsert_contract" -> Sources \X MarketIds \X ContractIds
      [] op = "upsert_price_snapshot" -> {"PredictIt"} \X MarketIds \X ContractIds \X SnapshotTimes
      [] op = "create_sync_checkpoint" ->
            {k \in CheckpointKeys : k[2] = "backfill" /\ k[3] = "d0" /\ k[4] = "d1"}

RaceVals(op) ==
    CASE op = "upsert_market" -> MarketVals
      [] op = "upsert_contract" -> ContractVals
      [] op = "upsert_price_snapshot" -> SnapshotVals
      [] op = "create_sync_checkpoint" -> {<<>>}

\* the SELECT of a call
select_for(op, key) ==
    CASE op = "upsert_market" -> select_market(markets, key[1], key[2])
      [] op = "upsert_contract" -> select_contract(contracts, key[1], key[2], key[3])
      [] op = "upsert_price_snapshot" ->
            select_price_snapshot(price_snapshots, key[1], key[2], key[3], key[4])
      [] op = "create_sync_checkpoint" ->
            select_checkpoint(sync_checkpoints, key[1], key[2], key[3], key[4])

\* the UPDATE or INSERT of a call, given the rows its SELECT returned
write_for(op, key, v, existing) ==
    CASE op = "upsert_market" ->
            write_market(markets, seq.markets, existing, key[1], key[2], v)
      [] op = "upsert_contract" ->
            write_contract(contracts, seq.contracts, existing, key[1], key[2], key[3], v)
      [] op = "upsert_price_snapshot" ->
            write_price_snapshot(price_snapshots, seq.price_snapshots, existing,
                                 key[1], key[2], key[3], key[4], v)
      [] op = "create_sync_checkpoint" ->
            write_checkpoint(sync_checkpoints, seq.sync_checkpoints, existing,
                             key[1], key[2], key[3], key[4])

\* the tables and counters after a write
Committed(op, res) ==
    /\ markets' = IF op = "upsert_market" THEN res.tbl ELSE markets
    /\ contracts' = IF op = "upsert_contract" THEN res.tbl ELSE contracts
    /\ price_snapshots' = IF op = "upsert_price_snapshot" THEN res.tbl ELSE price_snapshots
    /\ sync_checkpoints' = IF op = "create_sync_checkpoint" THEN res.tbl ELSE sync_checkpoints
    /\ seq' = CASE op = "upsert_market" -> [seq EXCEPT !.markets = res.seq]
                [] op = "upsert_contract" -> [seq EXCEPT !.contracts = res.seq]
                [] op = "upsert_price_snapshot" -> [seq EXCEPT !.price_snapshots = res.seq]
                [] op = "create_sync_checkpoint" -> [seq EXCEPT !.sync_checkpoints = res.seq]

IdleThread == [pc |-> "idle", op |-> "none", key |-> <<>>, v |-> <<>>, existing |-> {},
               id |-> 0, error |-> None]

SeedMarketVals == CHOOSE v \in MarketVals : v.category # None
SeedContractVals == CHOOSE v \in ContractVals : v.short_name # None
SeedSnapshotVals == CHOOSE v \in SnapshotVals : v.no_price # None

InitRace ==
    /\ last = NoCall /\ first_id = {} /\ gw = NoCall /\ aggregator = NoCall /\ job = NoCall
    /\ workers = [w \in Threads |-> IdleThread]
    /\ \/ /\ markets = {} /\ contracts = {} /\ price_snapshots = {}
          /\ sync_checkpoints = {} /\ seq = EmptySeq
       \/ /\ markets = upsert_market({}, 0, "PredictIt", "m1", SeedMarketVals).tbl
          /\ contracts = upsert_contract({}, 0, "PredictIt", "m1", "c1", SeedContractVals).tbl
          /\ price_snapshots = upsert_price_snapshot({}, 0, "PredictIt", "m1", "c1", "t1",
                                                     SeedSnapshotVals).tbl
          /\ sync_checkpoints = create_sync_checkpoint({}, 0, "PredictIt", "backfill",
                                                       "d0", "d1").tbl
          /\ seq = [markets |-> 1, contracts |-> 1, price_snapshots |-> 1,
                    sync_checkpoints |-> 1]

\* a thread enters a call and runs its SELECT
RaceSelect(w) ==
    /\ workers[w].pc = "idle"
    /\ \E op \in RaceOps : \E key \in RaceKeys(op), v \in RaceVals(op) :
          workers' = [workers EXCEPT ![w] =
                        [pc |-> "selected", op |-> op, key |-> key, v |-> v,
                         existing |-> select_for(op, key), id |-> 0, error |-> None]]
    /\ UNCHANGED <<markets, contracts, price_snapshots, sync_checkpoints, seq, last,
                   first_id, gw, aggregator, job>>

\* the thread's UPDATE or INSERT commits, or the INSERT raises IntegrityError
RaceWrite(w) ==
    /\ workers[w].pc = "selected"
    /\ LET t == workers[w]
           res == write_for(t.op, t.key, t.v, t.existing)
       IN  /\ Committed(t.op, res)
           /\ workers' = [workers EXCEPT ![w] =
                            [t EXCEPT !.pc = IF res.error = None THEN "returned" ELSE "raised",
                                      !.id = res.id, !.error = res.error]]
    /\ UNCHANGED <<last, first_id, gw, aggregator, job>>

NextRace == \E w \in Threads : RaceSelect(w) \/ RaceWrite(w)

SpecRace == InitRace /\ [][NextRace]_vars

\* the rows of the table of op that carry key
RowsOfKey(op, key) ==
    CASE op = "upsert_market" -> {r \in markets : <<r.source, r.market_id>> = key}
      [] op = "upsert_contract" ->
            {r \in contracts : <<r.source, r.market_id, r.contract_id>> = key}
      [] op = "upsert_price_snapshot" ->
            {r \in price_snapshots :
                <<r.source, r.market_id, r.contract_id, r.snapshot_time>> = key}
      [] op = "create_sync_checkpoint" ->
            {r \in sync_checkpoints : KeyOfCheckpoint(r) = key}

\* C3: whatever the interleaving of two threads that upsert one identity key,
\* the key never has two rows, and once both have finished neither call was
\* lost to an error and the row holds the values one of the two submitted.
C3_RaceNoDuplicateNoLostCall ==
    /\ \A op \in RaceOps : \A key \in RaceKeys(op) : Cardinality(RowsOfKey(op, key)) <= 1
    /\ ( /\ workers[1].pc \in {"returned", "raised"}
         /\ workers[2].pc \in {"returned", "raised"}
         /\ workers[1].op = workers[2].op
         /\ workers[1].key = workers[2].key )
       => /\ workers[1].pc = "returned"
          /\ workers[2].pc = "returned"
          /\ workers[1].op # "create_sync_checkpoint"
                => \E w \in Threads :
                      RowsOfKey(workers[w].op, workers[w].key)
                         = {RowWritten(workers[w].op, workers[w].id, workers[w].key,
                                       workers[w].v)}

\* C4: an upsert is one atomic step: between a call's existence check and its
\* insert or update no other write to the key takes effect, so what the call
\* read is still what the table holds when it writes, and no insert meets a
\* row that breaks the unique constraint.
C4_UpsertIsAtomic ==
    \A w \in Threads :
        /\ workers[w].pc = "selected" => workers[w].existing = RowsOfKey(workers[w].op, workers[w].key)
        /\ workers[w].pc # "raised"

(***************************************************************************)
(* scripts/backfill.py: BackfillJob.  One process runs run_backfill or     *)
(* resume_backfill: it plans its task list against the ledger, then a      *)
(* ThreadPoolExecutor of Concurrency threads takes the tasks in order and  *)
(* runs fetch_source_data, one store statement or one network call per     *)
(* step.  The process may be killed while the pool runs; a later command   *)
(* starts from the database as it was left.                                *)
(***************************************************************************)
\* BackfillJob(storage, concurrency=2)
Concurrency == 2
\* the last day a backfill range may end at; ranges start at day 0
MaxBackfillDay == 2
\* commands (run_backfill, resume_backfill) started in one behaviour
MaxCommands == 2

WindowSizes == {1, 2}

\* the sources argument of run_backfill, in order
BackfillSources == <<"PredictIt", "Kalshi">>
\* self.clients: the sources whose client constructor succeeded
Clients == {"PredictIt"}

\* datetime.isoformat() and datetime.fromisoformat()
Isoformat(d) == <<"iso", d>>
Fromisoformat(str) == str[2]

\* what client.get_political_markets() returns, the same on every fetch
Feed(source) ==
    << [market_id |-> "m1",
        v |-> [market_name |-> "Winner 2028", category |-> Some("politics"),
               status |-> Some("open"), url |-> Some("u"), total_volume |-> Some(100),
               end_date |-> None],
        contracts |-> << [contract_id |-> "c1",
                          v |-> [contract_name |-> "Trump", short_name |-> None],
                          price |-> [yes_price |-> Some(45), no_price |-> Some(52),
                                     yes_bid |-> Some(44), yes_ask |-> Some(46),
                                     volume |-> Some(7), raw_data |-> Some("d")]] >>] >>

ZeroStats == [fetched |-> 0, inserted |-> 0, updated |-> 0, deduped |-> 0]

IdleTask == [pc |-> "idle", source |-> "none", window_start |-> 0, window_end |-> 0,
             checkpoint_id |-> 0, stats |-> ZeroStats, op |-> "none", mi |-> 0, ci |-> 0,
             existing |-> {}]

\* submitted, started, fetched, refetched and raised keep, for the command
\* running or last run, the tasks handed to the pool, the checkpoints of the
\* tasks a thread began in the order they began, the checkpoints whose fetch
\* was invoked once and more than once, the exceptions raised
\* (checkpoint, where), and for each checkpoint the store and client calls its
\* task made, in their order; was_inserted keeps for each checkpoint what the
\* upsert_price_snapshot calls of its task returned, and snapshots_before the
\* number of price_snapshots rows when the command began
IdleJob == [pc |-> "idle", cmd |-> "none", queue |-> <<>>, hist |-> <<>>, clean |-> TRUE,
            submitted |-> <<>>, started |-> <<>>, fetched |-> {}, refetched |-> {},
            raised |-> {}, steps |-> <<>>, was_inserted |-> <<>>, snapshots_before |-> 0]

\* "Create checkpoints for all windows": create_sync_checkpoint for each
\* (source, window) in turn; acc carries the table, the id counter and the tasks
RECURSIVE plan_checkpoints(_, _)
plan_checkpoints(pairs, acc) ==
    IF pairs = <<>> THEN acc
    ELSE LET p == Head(pairs)
             res == create_sync_checkpoint(acc.tbl, acc.seq, p[1], "backfill",
                                           Isoformat(p[2]), Isoformat(p[3]))
         IN  plan_checkpoints(Tail(pairs),
                 [tbl |-> res.tbl, seq |-> res.seq,
                  tasks |-> Append(acc.tasks, <<p[1], p[2], p[3], res.id>>)])

\* for source in sources: for window_start, window_end in windows
RECURSIVE source_window_pairs(_, _)
source_window_pairs(sources, windows) ==
    IF sources = <<>> THEN <<>>
    ELSE [i \in 1..Len(windows) |-> <<Head(sources), windows[i][1], windows[i][2]>>]
         \o source_window_pairs(Tail(sources), windows)

\* mutant: a task is dropped when completed checkpoints of its source cover
\* every day of its window
is_pending_task_by_coverage(tbl, t) ==
    \E d \in t[2]..(t[3] - 1) :
        \A c \in get_completed_checkpoints(tbl, Some(t[1]), None) :
            ~(c.window_start[2] <= d /\ d < c.window_end[2])

\* "Filter to only pending/failed tasks": a task stays unless a completed
\* checkpoint of its source has its (window_start, window_end)
is_pending_task(tbl, t) ==
    <<Isoformat(t[2]), Isoformat(t[3])>> \notin
        {<<c.window_start, c.window_end>> : c \in get_completed_checkpoints(tbl, Some(t[1]), None)}

\* the rows of get_pending_checkpoints in the order of "ORDER BY window_start ASC"
\* (rows of one window_start in id order)
RECURSIVE ordered_by_window_start(_)
ordered_by_window_start(rows) ==
    IF rows = {} THEN <<>>
    ELSE LET r == CHOOSE x \in rows :
                    \A y \in rows : \/ x.window_start[2] < y.window_start[2]
                                    \/ (x.window_start[2] = y.window_start[2] /\ x.id <= y.id)
         IN  <<r>> \o ordered_by_window_start(rows \ {r})

InitBackfill ==
    /\ markets = {} /\ contracts = {} /\ price_snapshots = {} /\ sync_checkpoints = {}
    /\ seq = EmptySeq /\ last = NoCall /\ first_id = {} /\ gw = NoCall /\ aggregator = NoCall
    /\ workers = [w \in 1..Concurrency |-> IdleTask]
    /\ job = IdleJob

\* the command ends: its record joins the history
Ended(j, outcome, tbl) ==
    [j EXCEPT !.pc = "idle", !.queue = <<>>,
              !.hist = Append(@, [cmd |-> j.cmd, outcome |-> outcome, clean |-> j.clean,
                                  statuses |-> {r.status : r \in tbl},
                                  counted |-> \E r \in tbl : r.status = "failed"
                                                              /\ r.records_fetched > 0])]

\* run_backfill up to the submission of the pending tasks
RunBackfill ==
    /\ job.pc = "idle"
    /\ Len(job.hist) < MaxCommands
    /\ \E e \in 1..MaxBackfillDay, size \in WindowSizes :
          LET windows == generate_windows(0, e, size)
              plan == plan_checkpoints(source_window_pairs(BackfillSources, windows),
                         [tbl |-> sync_checkpoints, seq |-> seq.sync_checkpoints,
                          tasks |-> <<>>])
              pending_tasks == SelectSeq(plan.tasks, LAMBDA t : is_pending_task(plan.tbl, t))
              j == [job EXCEPT !.pc = "pool", !.cmd = <<"run_backfill", e, size>>,
                               !.queue = pending_tasks, !.clean = TRUE,
                               !.submitted = pending_tasks, !.started = <<>>,
                               !.fetched = {},
                               !.refetched = {}, !.raised = {}, !.steps = <<>>,
                               !.was_inserted = <<>>,
                               !.snapshots_before = Cardinality(price_snapshots)]
          IN  /\ sync_checkpoints' = plan.tbl
              /\ seq' = [seq EXCEPT !.sync_checkpoints = plan.seq]
              /\ job' = IF pending_tasks = <<>> THEN Ended(j, "done", plan.tbl) ELSE j
    /\ UNCHANGED <<markets, contracts, price_snapshots, last, first_id, gw, aggregator, workers>>

\* resume_backfill up to the submission of the pending checkpoints
ResumeBackfill ==
    /\ job.pc = "idle"
    /\ Len(job.hist) < MaxCommands
    /\ LET pending == ordered_by_window_start(
                          get_pending_checkpoints(sync_checkpoints, None, Some("backfill")))
           tasks == [i \in 1..Len(pending) |->
                        <<pending[i].source, Fromisoformat(pending[i].window_start),
                          Fromisoformat(pending[i].window_end), pending[i].id>>]
           j == [job EXCEPT !.pc = "pool", !.cmd = <<"resume_backfill">>,
                            !.queue = tasks, !.clean = TRUE,
                            !.submitted = tasks, !.started = <<>>,
                            !.fetched = {},
                            !.refetched = {}, !.raised = {}, !.steps = <<>>,
                               !.was_inserted = <<>>,
                               !.snapshots_before = Cardinality(price_snapshots)]
       IN  job' = IF tasks = <<>> THEN Ended(j, "done", sync_checkpoints) ELSE j
    /\ UNCHANGED <<markets, contracts, price_snapshots, sync_checkpoints, seq, last,
                   first_id, gw, aggregator, workers>>

\* the job's record after the task of checkpoint cp made the call named
step_logged(j, cp, step) ==
    [j EXCEPT !.steps = IF cp \in DOMAIN @ THEN [@ EXCEPT ![cp] = Append(@, step)]
                        ELSE @ @@ (cp :> <<step>>)]

\* the job's record after the call of task t returned res: what an
\* upsert_price_snapshot returned as was_inserted is kept
result_logged(j, t, res) ==
    IF t.op # "upsert_price_snapshot" THEN j
    ELSE [j EXCEPT !.was_inserted =
             IF t.checkpoint_id \in DOMAIN @
             THEN [@ EXCEPT ![t.checkpoint_id] = Append(@, res.inserted)]
             ELSE @ @@ (t.checkpoint_id :> <<res.inserted>>)]

\* mutant: a thread that takes a task leaves it in the queue
TaskStart_leaves_task_queued(w) ==
    /\ job.pc = "pool"
    /\ workers[w].pc = "idle"
    /\ job.queue # <<>>
    /\ LET t == Head(job.queue) IN
       /\ \/ /\ t[1] \notin Clients
             /\ job' = [job EXCEPT !.started = Append(@, t[4])]
             /\ UNCHANGED <<workers, sync_checkpoints>>
          \/ /\ t[1] \in Clients
             /\ job' = step_logged([job EXCEPT !.started = Append(@, t[4])],
                                   t[4], <<"running">>)
             /\ sync_checkpoints' = update_sync_checkpoint(sync_checkpoints, t[4],
                                        [NoUpdate EXCEPT !.status = Some("running")])
             /\ workers' = [workers EXCEPT ![w] =
                              [IdleTask EXCEPT !.pc = "fetch", !.source = t[1],
                                               !.window_start = t[2], !.window_end = t[3],
                                               !.checkpoint_id = t[4]]]
    /\ UNCHANGED <<markets, contracts, price_snapshots, seq, last, first_id, gw, aggregator>>

\* a free thread takes the next task: fetch_source_data up to the fetch.  A
\* source without a client returns at once; otherwise the checkpoint is
\* marked running.
TaskStart(w) ==
    /\ job.pc = "pool"
    /\ workers[w].pc = "idle"
    /\ job.queue # <<>>
    /\ LET t == Head(job.queue) IN
       /\ \/ /\ t[1] \notin Clients
             /\ job' = [job EXCEPT !.queue = Tail(@), !.started = Append(@, t[4])]
             /\ UNCHANGED <<workers, sync_checkpoints>>
          \/ /\ t[1] \in Clients
             /\ job' = step_logged([job EXCEPT !.queue = Tail(@),
                                               !.started = Append(@, t[4])],
                                   t[4], <<"running">>)
             /\ sync_checkpoints' = update_sync_checkpoint(sync_checkpoints, t[4],
                                        [NoUpdate EXCEPT !.status = Some("running")])
             /\ workers' = [workers EXCEPT ![w] =
                              [IdleTask EXCEPT !.pc = "fetch", !.source = t[1],
                                               !.window_start = t[2], !.window_end = t[3],
                                               !.checkpoint_id = t[4]]]
    /\ UNCHANGED <<markets, contracts, price_snapshots, seq, last, first_id, gw, aggregator>>

\* mutant: the handler records the failure without its message
task_failed_without_message(tbl, t, error_msg) ==
    update_sync_checkpoint(tbl, t.checkpoint_id,
        [status |-> Some("failed"), error_message |-> None,
         records_fetched |-> Some(t.stats.fetched),
         records_inserted |-> Some(t.stats.inserted),
         records_updated |-> Some(t.stats.updated),
         records_deduped |-> Some(t.stats.deduped)])

\* "except Exception as e": the checkpoint becomes failed with the error and
\* the counts reached, and the task returns
task_failed(tbl, t, error_msg) ==
    update_sync_checkpoint(tbl, t.checkpoint_id,
        [status |-> Some("failed"), error_message |-> Some(error_msg),
         records_fetched |-> Some(t.stats.fetched),
         records_inserted |-> Some(t.stats.inserted),
         records_updated |-> Some(t.stats.updated),
         records_deduped |-> Some(t.stats.deduped)])

\* mutant: a retried task takes up the response after the records its
\* checkpoint had counted when it failed
next_record_after_counted(t) ==
    LET ms == Feed(t.source)
        counted == IF t.pc = "fetch"
                   THEN CHOOSE n \in {r.records_fetched :
                                         r \in {x \in sync_checkpoints : x.id = t.checkpoint_id}} : TRUE
                   ELSE 0
        u == [t EXCEPT !.mi = @ + counted]
    IN
    IF u.mi >= 1 /\ u.mi <= Len(ms) /\ u.ci < Len(ms[u.mi].contracts)
    THEN [u EXCEPT !.pc = "select", !.op = "upsert_contract", !.ci = @ + 1, !.existing = {}]
    ELSE IF u.mi < Len(ms)
    THEN [u EXCEPT !.pc = "select", !.op = "upsert_market", !.mi = @ + 1, !.ci = 0,
                   !.existing = {}]
    ELSE [u EXCEPT !.pc = "complete", !.op = "none", !.existing = {}]

\* mutant: the contracts of a market are stored without the market's own upsert
next_record_without_market(t) ==
    LET ms == Feed(t.source) IN
    IF t.mi >= 1 /\ t.mi <= Len(ms) /\ t.ci < Len(ms[t.mi].contracts)
    THEN [t EXCEPT !.pc = "select", !.op = "upsert_contract", !.ci = @ + 1, !.existing = {}]
    ELSE IF t.mi < Len(ms)
    THEN [t EXCEPT !.pc = "select", !.op = "upsert_contract", !.mi = @ + 1, !.ci = 1,
                   !.existing = {}]
    ELSE [t EXCEPT !.pc = "complete", !.op = "none", !.existing = {}]

\* the step after the current contract's snapshot: next contract, next market, or the end
next_record(t) ==
    LET ms == Feed(t.source) IN
    IF t.mi >= 1 /\ t.mi <= Len(ms) /\ t.ci < Len(ms[t.mi].contracts)
    THEN [t EXCEPT !.pc = "select", !.op = "upsert_contract", !.ci = @ + 1, !.existing = {}]
    ELSE IF t.mi < Len(ms)
    THEN [t EXCEPT !.pc = "select", !.op = "upsert_market", !.mi = @ + 1, !.ci = 0,
                   !.existing = {}]
    ELSE [t EXCEPT !.pc = "complete", !.op = "none", !.existing = {}]

\* the job's record after the fetch for checkpoint cp was invoked
fetch_invoked(j, cp) ==
    step_logged([j EXCEPT !.fetched = @ \cup {cp},
                          !.refetched = IF cp \in j.fetched THEN @ \cup {cp} ELSE @],
                cp, <<"fetch">>)

\* the job's record after the task of checkpoint cp raised at the place named
exception_raised(j, cp, place) ==
    [j EXCEPT !.raised = @ \cup {<<cp, place>>}]

\* client.get_political_markets() returns the markets
TaskFetchOk(w) ==
    /\ workers[w].pc = "fetch"
    /\ workers' = [workers EXCEPT ![w] = next_record(@)]
    /\ job' = fetch_invoked(job, workers[w].checkpoint_id)
    /\ UNCHANGED <<markets, contracts, price_snapshots, sync_checkpoints, seq, last,
                   first_id, gw, aggregator>>

\* mutant: the exception of one task cancels the tasks still waiting in the pool
TaskFetchRaises_cancels_waiting(w) ==
    /\ workers[w].pc = "fetch"
    /\ sync_checkpoints' = task_failed(sync_checkpoints, workers[w], "ConnectionError: fetch")
    /\ workers' = [workers EXCEPT ![w] = IdleTask]
    /\ job' = exception_raised(fetch_invoked([job EXCEPT !.clean = FALSE, !.queue = <<>>],
                                              workers[w].checkpoint_id),
                                workers[w].checkpoint_id, "fetch")
    /\ UNCHANGED <<markets, contracts, price_snapshots, seq, last, first_id, gw, aggregator>>

\* client.get_political_markets() raises
TaskFetchRaises(w) ==
    /\ workers[w].pc = "fetch"
    /\ sync_checkpoints' = task_failed(sync_checkpoints, workers[w], "ConnectionError: fetch")
    /\ workers' = [workers EXCEPT ![w] = IdleTask]
    /\ job' = exception_raised(fetch_invoked([job EXCEPT !.clean = FALSE],
                                              workers[w].checkpoint_id),
                                workers[w].checkpoint_id, "fetch")
    /\ UNCHANGED <<markets, contracts, price_snapshots, seq, last, first_id, gw, aggregator>>

\* the identity key and the values of the task's current store call;
\* snapshot_time = window_end.isoformat()
task_key(t) ==
    LET m == Feed(t.source)[t.mi] IN
    CASE t.op = "upsert_market" -> <<t.source, m.market_id>>
      [] t.op = "upsert_contract" -> <<t.source, m.market_id, m.contracts[t.ci].contract_id>>
      [] t.op = "upsert_price_snapshot" ->
            <<t.source, m.market_id, m.contracts[t.ci].contract_id, Isoformat(t.window_end)>>

task_vals(t) ==
    LET m == Feed(t.source)[t.mi] IN
    CASE t.op = "upsert_market" -> m.v
      [] t.op = "upsert_contract" -> m.contracts[t.ci].v
      [] t.op = "upsert_price_snapshot" -> m.contracts[t.ci].price

\* the SELECT of the task's current upsert
TaskSelect(w) ==
    /\ workers[w].pc = "select"
    /\ LET t == workers[w] IN
       workers' = [workers EXCEPT ![w] =
                      [t EXCEPT !.pc = "write",
                                !.existing = select_for(t.op, task_key(t)),
                                !.stats.fetched = IF t.op = "upsert_market"
                                                  THEN @ + 1 ELSE @]]
    /\ UNCHANGED <<markets, contracts, price_snapshots, sync_checkpoints, seq, last,
                   first_id, gw, aggregator, job>>

\* mutant: a contract's snapshot is not stored
after_write_without_snapshot(t, res) ==
    CASE t.op = "upsert_market" -> next_record(t)
      [] t.op = "upsert_contract" -> next_record(t)
      [] t.op = "upsert_price_snapshot" -> next_record(t)

\* the task after its current upsert returned res
after_write(t, res) ==
    CASE t.op = "upsert_market" -> next_record(t)
      [] t.op = "upsert_contract" ->
            [t EXCEPT !.pc = "select", !.op = "upsert_price_snapshot", !.existing = {}]
      [] t.op = "upsert_price_snapshot" ->
            next_record([t EXCEPT !.stats.inserted = IF res.inserted THEN @ + 1 ELSE @,
                                  !.stats.deduped = IF res.inserted THEN @ ELSE @ + 1])

\* the UPDATE or INSERT of the task's current upsert; an IntegrityError is
\* caught by the task's handler
TaskWrite(w) ==
    /\ workers[w].pc = "write"
    /\ LET t == workers[w]
           res == write_for(t.op, task_key(t), task_vals(t), t.existing)
       IN  \/ /\ res.error = None
              /\ Committed(t.op, res)
              /\ workers' = [workers EXCEPT ![w] = after_write(t, res)]
              /\ job' = result_logged(step_logged(job, t.checkpoint_id, <<t.op, task_key(t)>>),
                                       t, res)
           \/ /\ res.error # None
              /\ sync_checkpoints' = task_failed(sync_checkpoints, t, "IntegrityError: UNIQUE")
              /\ workers' = [workers EXCEPT ![w] = IdleTask]
              /\ job' = exception_raised(job, t.checkpoint_id, "write")
              /\ UNCHANGED <<markets, contracts, price_snapshots, seq>>
    /\ UNCHANGED <<last, first_id, gw, aggregator>>

\* processing a record of the response raises outside the store (a value that
\* json.dumps or the sqlite binding rejects, a malformed contracts list): the
\* exception leaves the loops and is caught by the task's handler
TaskRecordRaises(w) ==
    /\ workers[w].pc = "select"
    /\ sync_checkpoints' = task_failed(sync_checkpoints, workers[w], "TypeError: record")
    /\ workers' = [workers EXCEPT ![w] = IdleTask]
    /\ job' = exception_raised(job, workers[w].checkpoint_id, "record")
    /\ UNCHANGED <<markets, contracts, price_snapshots, seq, last, first_id, gw, aggregator>>

\* update_sync_checkpoint(checkpoint_id, status='completed', ...) raises (the
\* database is locked or cannot be written); the handler's update goes through
TaskCompleteRaises(w) ==
    /\ workers[w].pc = "complete"
    /\ sync_checkpoints' = task_failed(sync_checkpoints, workers[w],
                                       "OperationalError: database is locked")
    /\ workers' = [workers EXCEPT ![w] = IdleTask]
    /\ job' = exception_raised(job, workers[w].checkpoint_id, "update")
    /\ UNCHANGED <<markets, contracts, price_snapshots, seq, last, first_id, gw, aggregator>>

\* a store call of the task raises and the handler's own update_sync_checkpoint
\* raises too: the exception leaves fetch_source_data, future.result() re-raises
\* it and the "except Exception" of the as_completed loop logs it
TaskHandlerRaises(w) ==
    /\ workers[w].pc \in {"write", "complete"}
    /\ workers' = [workers EXCEPT ![w] = IdleTask]
    /\ job' = exception_raised(job, workers[w].checkpoint_id, "handler")
    /\ UNCHANGED <<markets, contracts, price_snapshots, sync_checkpoints, seq, last,
                   first_id, gw, aggregator>>

\* update_sync_checkpoint(checkpoint_id, status='completed', counts)
TaskComplete(w) ==
    /\ workers[w].pc = "complete"
    /\ sync_checkpoints' = update_sync_checkpoint(sync_checkpoints, workers[w].checkpoint_id,
            [status |-> Some("completed"), error_message |-> None,
             records_fetched |-> Some(workers[w].stats.fetched),
             records_inserted |-> Some(workers[w].stats.inserted),
             records_updated |-> Some(workers[w].stats.updated),
             records_deduped |-> Some(workers[w].stats.deduped)])
    /\ workers' = [workers EXCEPT ![w] = IdleTask]
    /\ job' = step_logged(job, workers[w].checkpoint_id, <<"completed">>)
    /\ UNCHANGED <<markets, contracts, price_snapshots, seq, last, first_id, gw, aggregator>>

\* every future has completed: the command returns
PoolDone ==
    /\ job.pc = "pool"
    /\ job.queue = <<>>
    /\ \A w \in 1..Concurrency : workers[w].pc = "idle"
    /\ job' = Ended(job, "done", sync_checkpoints)
    /\ UNCHANGED <<markets, contracts, price_snapshots, sync_checkpoints, seq, last,
                   first_id, gw, aggregator, workers>>

\* the process is killed while its pool runs
Interrupt ==
    /\ job.pc = "pool"
    /\ job' = Ended(job, "interrupted", sync_checkpoints)
    /\ workers' = [w \in 1..Concurrency |-> IdleTask]
    /\ UNCHANGED <<markets, contracts, price_snapshots, sync_checkpoints, seq, last,
                   first_id, gw, aggregator>>

NextBackfill ==
    \/ RunBackfill
    \/ ResumeBackfill
    \/ \E w \in 1..Concurrency : TaskStart(w)
    \/ \E w \in 1..Concurrency : TaskFetchOk(w)
    \/ \E w \in 1..Concurrency : TaskFetchRaises(w)
    \/ \E w \in 1..Concurrency : TaskSelect(w)
    \/ \E w \in 1..Concurrency : TaskWrite(w)
    \/ \E w \in 1..Concurrency : TaskComplete(w)
    \/ \E w \in 1..Concurrency : TaskRecordRaises(w)
    \/ \E w \in 1..Concurrency : TaskCompleteRaises(w)
    \/ \E w \in 1..Concurrency : TaskHandlerRaises(w)
    \/ PoolDone
    \/ Interrupt

SpecBackfill == InitBackfill /\ [][NextBackfill]_vars

\* the status changes the ledger's state machine allows
LegalStatusChanges ==
    {<<"pending", "running">>, <<"running", "completed">>, <<"running", "failed">>,
     <<"failed", "pending">>, <<"running", "pending">>}

\* C5: in every step of run_backfill and resume_backfill a checkpoint's status
\* stays as it is or changes along pending->running, running->completed,
\* running->failed, failed->pending or running->pending.
C5_StatusChangesAreLegal ==
    [][\A r \in sync_checkpoints : \A q \in sync_checkpoints' :
          (q.id = r.id /\ q.status # r.status) => <<r.status, q.status>> \in LegalStatusChanges
      ]_vars

\* the windows of [0, e) of size s and the identity keys a backfill of them stores
WindowEnds(e, s) == {IF k * s + s < e THEN k * s + s ELSE e : k \in {k \in 0..e : k * s < e}}

ExpectedMarketKeys ==
    {<<src, Feed(src)[i].market_id>> : src \in Clients, i \in 1..Len(Feed("PredictIt"))}

ExpectedContractKeys ==
    {<<k[1], k[2], "c1">> : k \in ExpectedMarketKeys}

ExpectedSnapshotKeys(e, s) ==
    {<<k[1], k[2], k[3], <<"iso", d>>>> : k \in ExpectedContractKeys, d \in WindowEnds(e, s)}

\* a run_backfill was interrupted leaving every checkpoint completed, pending or
\* running, and a resume_backfill then ran to its end with every fetch succeeding
InterruptedThenResumed ==
    /\ job.pc = "idle"
    /\ Len(job.hist) = 2
    /\ job.hist[1].cmd[1] = "run_backfill"
    /\ job.hist[1].outcome = "interrupted"
    /\ job.hist[1].statuses \subseteq {"completed", "pending", "running"}
    /\ job.hist[2].cmd[1] = "resume_backfill"
    /\ job.hist[2].outcome = "done"
    /\ job.hist[2].clean

\* C10: after an interrupted run_backfill and a resume_backfill whose fetches all
\* succeed, the identity keys in markets, contracts and price_snapshots are
\* those of an uninterrupted run over the same range and window size.
C10_ResumeCompleteness ==
    InterruptedThenResumed =>
        /\ {<<r.source, r.market_id>> : r \in markets} = ExpectedMarketKeys
        /\ {<<r.source, r.market_id, r.contract_id>> : r \in contracts} = ExpectedContractKeys
        /\ {<<r.source, r.market_id, r.contract_id, r.snapshot_time>> : r \in price_snapshots}
             = ExpectedSnapshotKeys(job.hist[1].cmd[2], job.hist[1].cmd[3])

(***************************************************************************)
(* scripts/backfill_electionbettingodds.py: backfill_date_range and        *)
(* resume_backfill.  One asyncio process: the checkpoint calls and each    *)
(* store_snapshot run without a suspension point, the dates' fetches       *)
(* finish in any order.  The process may be killed between two steps.      *)
(***************************************************************************)
SOURCE_NAME == "electionbettingodds"

\* the last day a date range may name; days are 0..MaxEboDay
MaxEboDay == 1
\* commands (backfill_date_range, resume_backfill) started in one behaviour
MaxEboCommands == 3

\* strftime('%Y-%m-%d') and strptime(s, '%Y-%m-%d')
Strftime(d) == <<"ymd", d>>
Strptime(str) == str[2]

\* PAGES_TO_SCRAPE with the market each page is stored under
PAGES_TO_SCRAPE ==
    << [path |-> "/", market_id |-> "general", market_name |-> "Election Betting Odds"],
       [path |-> "/President2028.html", market_id |-> "president_2028",
        market_name |-> "US Presidency 2028"] >>

\* the candidate every parsed page lists
Candidate == [candidate_name |-> "JD Vance", contract_id |-> "jd_vance", odds_pct |-> 30]

\* f"{snapshot.date}T00:00:00Z"
SnapshotTimeOf(date) == <<"T00:00:00Z", date>>

\* store_snapshot(storage, snapshot): upsert_market, then per candidate
\* upsert_contract and upsert_price_snapshot; db is the three tables with their
\* id counters and the inserted/updated counts so far
store_snapshot(db, page, date) ==
    LET m == upsert_market(db.markets, db.seq.markets, SOURCE_NAME, page.market_id,
                 [market_name |-> page.market_name, category |-> Some("elections"),
                  status |-> Some("open"), url |-> Some(page.path),
                  total_volume |-> None, end_date |-> None])
        c == upsert_contract(db.contracts, db.seq.contracts, SOURCE_NAME, page.market_id,
                 Candidate.contract_id,
                 [contract_name |-> Candidate.candidate_name,
                  short_name |-> Some(Candidate.candidate_name)])
        p == upsert_price_snapshot(db.price_snapshots, db.seq.price_snapshots, SOURCE_NAME,
                 page.market_id, Candidate.contract_id, SnapshotTimeOf(date),
                 [yes_price |-> Some(Candidate.odds_pct), no_price |-> None,
                  yes_bid |-> None, yes_ask |-> None, volume |-> None,
                  raw_data |-> Some("odds")])
    IN  [markets |-> m.tbl, contracts |-> c.tbl, price_snapshots |-> p.tbl,
         seq |-> [db.seq EXCEPT !.markets = m.seq, !.contracts = c.seq,
                                !.price_snapshots = p.seq],
         inserted |-> db.inserted + (IF p.inserted THEN 1 ELSE 0),
         updated |-> db.updated + (IF p.inserted THEN 0 ELSE 1)]

\* "for snapshot in snapshots: store_snapshot(storage, snapshot)"
RECURSIVE store_snapshots(_, _, _)
store_snapshots(db, pages, date) ==
    IF pages = <<>> THEN db
    ELSE store_snapshots(store_snapshot(db, Head(pages), date), Tail(pages), date)

EboStats == [dates_processed |-> 0, dates_failed |-> 0, records_inserted |-> 0,
             records_updated |-> 0]

\* the dates start..end, both included
date_list(start, end) == {d \in 0..MaxEboDay : start <= d /\ d <= end}

IdleEbo == [pc |-> "idle", queue |-> <<>>, checkpoint_id |-> 0, dates |-> {},
            stats |-> EboStats, ncmd |-> 0, began_completed |-> {}, fetched |-> {}]

InitEbo ==
    /\ markets = {} /\ contracts = {} /\ price_snapshots = {} /\ sync_checkpoints = {}
    /\ seq = EmptySeq /\ last = NoCall /\ first_id = {} /\ gw = NoCall /\ aggregator = NoCall
    /\ workers = <<>>
    /\ job = IdleEbo

\* backfill_date_range up to the processing of the dates: the checkpoint is
\* created or found and marked running.  began_completed keeps the rows of the
\* range that were completed when the call began.
begin_date_range(j, start_date, end_date) ==
    LET existing == select_checkpoint(sync_checkpoints, SOURCE_NAME, "backfill",
                                      start_date, end_date)
        res == write_checkpoint(sync_checkpoints, seq.sync_checkpoints, existing,
                                SOURCE_NAME, "backfill", start_date, end_date)
    IN  /\ sync_checkpoints' = update_sync_checkpoint(res.tbl, res.id,
                                   [NoUpdate EXCEPT !.status = Some("running")])
        /\ seq' = [seq EXCEPT !.sync_checkpoints = res.seq]
        /\ job' = [j EXCEPT !.pc = "dates", !.checkpoint_id = res.id,
                            !.dates = date_list(Strptime(start_date), Strptime(end_date)),
                            !.stats = EboStats,
                            !.began_completed = {r \in existing : r.status = "completed"},
                            !.fetched = {}]

\* main(): backfill_date_range(storage, start, end)
BackfillDateRange ==
    /\ job.pc = "idle"
    /\ job.queue = <<>>
    /\ job.ncmd < MaxEboCommands
    /\ \E start \in 0..MaxEboDay, end \in 0..MaxEboDay :
          begin_date_range([job EXCEPT !.ncmd = @ + 1], Strftime(start), Strftime(end))
    /\ UNCHANGED <<markets, contracts, price_snapshots, last, first_id, gw, aggregator, workers>>

\* main(): resume_backfill(storage): the pending checkpoints of the source are
\* listed; each is then handed to backfill_date_range in turn
ResumeEbo ==
    /\ job.pc = "idle"
    /\ job.queue = <<>>
    /\ job.ncmd < MaxEboCommands
    /\ LET pending == ordered_by_window_start(
                          get_pending_checkpoints(sync_checkpoints, Some(SOURCE_NAME),
                                                  Some("backfill")))
       IN  job' = [job EXCEPT !.ncmd = @ + 1,
                              !.queue = [i \in 1..Len(pending) |->
                                            <<pending[i].window_start, pending[i].window_end>>]]
    /\ UNCHANGED <<markets, contracts, price_snapshots, sync_checkpoints, seq, last,
                   first_id, gw, aggregator, workers>>

\* "for checkpoint in pending: await backfill_date_range(...)"
ResumeNext ==
    /\ job.pc = "idle"
    /\ job.queue # <<>>
    /\ begin_date_range([job EXCEPT !.queue = Tail(@)], Head(job.queue)[1], Head(job.queue)[2])
    /\ UNCHANGED <<markets, contracts, price_snapshots, last, first_id, gw, aggregator, workers>>

\* process_date(date), the pages fetched and parsed: every snapshot is stored
ProcessDateStored(date) ==
    /\ job.pc = "dates"
    /\ date \in job.dates
    /\ LET db == store_snapshots(
                    [markets |-> markets, contracts |-> contracts,
                     price_snapshots |-> price_snapshots, seq |-> seq,
                     inserted |-> job.stats.records_inserted,
                     updated |-> job.stats.records_updated],
                    PAGES_TO_SCRAPE, date)
       IN  /\ markets' = db.markets
           /\ contracts' = db.contracts
           /\ price_snapshots' = db.price_snapshots
           /\ seq' = db.seq
           /\ job' = [job EXCEPT !.dates = @ \ {date}, !.fetched = @ \cup {date},
                                 !.stats.dates_processed = @ + 1,
                                 !.stats.records_inserted = db.inserted,
                                 !.stats.records_updated = db.updated]
    /\ UNCHANGED <<sync_checkpoints, last, first_id, gw, aggregator, workers>>

\* process_date(date), fetch_page gave no page after its retries: nothing to store
ProcessDateNoPage(date) ==
    /\ job.pc = "dates"
    /\ date \in job.dates
    /\ job' = [job EXCEPT !.dates = @ \ {date}, !.fetched = @ \cup {date},
                          !.stats.dates_processed = @ + 1]
    /\ UNCHANGED <<markets, contracts, price_snapshots, sync_checkpoints, seq, last,
                   first_id, gw, aggregator, workers>>

\* process_date(date), an exception while fetching or parsing: the date failed
ProcessDateRaises(date) ==
    /\ job.pc = "dates"
    /\ date \in job.dates
    /\ job' = [job EXCEPT !.dates = @ \ {date}, !.fetched = @ \cup {date},
                          !.stats.dates_failed = @ + 1]
    /\ UNCHANGED <<markets, contracts, price_snapshots, sync_checkpoints, seq, last,
                   first_id, gw, aggregator, workers>>

\* "Update checkpoint": completed if no date failed, else failed
FinishDateRange ==
    /\ job.pc = "dates"
    /\ job.dates = {}
    /\ sync_checkpoints' = update_sync_checkpoint(sync_checkpoints, job.checkpoint_id,
            [status |-> Some(IF job.stats.dates_failed = 0 THEN "completed" ELSE "failed"),
             error_message |-> IF job.stats.dates_failed = 0 THEN None
                               ELSE Some(<<job.stats.dates_failed, "dates failed">>),
             records_fetched |-> Some(job.stats.dates_processed),
             records_inserted |-> Some(job.stats.records_inserted),
             records_updated |-> Some(job.stats.records_updated),
             records_deduped |-> None])
    /\ job' = [job EXCEPT !.pc = "idle"]
    /\ UNCHANGED <<markets, contracts, price_snapshots, seq, last, first_id, gw, aggregator, workers>>

\* the process is killed while it works through its dates
InterruptEbo ==
    /\ job.pc = "dates"
    /\ job.dates # {}
    /\ job' = [job EXCEPT !.pc = "idle", !.queue = <<>>, !.dates = {},
                          !.began_completed = {}, !.fetched = {}]
    /\ UNCHANGED <<markets, contracts, price_snapshots, sync_checkpoints, seq, last,
                   first_id, gw, aggregator, workers>>

NextEbo ==
    \/ BackfillDateRange
    \/ ResumeEbo
    \/ ResumeNext
    \/ \E date \in 0..MaxEboDay : ProcessDateStored(date)
    \/ \E date \in 0..MaxEboDay : ProcessDateNoPage(date)
    \/ \E date \in 0..MaxEboDay : ProcessDateRaises(date)
    \/ FinishDateRange
    \/ InterruptEbo

SpecEbo == InitEbo /\ [][NextEbo]_vars

\* C8: when a backfill path begins on a range whose checkpoint is completed, it
\* starts no fetch for the range, and when the path has ended the checkpoint is
\* the row it was, completed with the same counters.
C8_CompletedNeverRedone ==
    job.began_completed # {} =>
        /\ job.fetched = {}
        /\ job.pc = "idle" => job.began_completed \subseteq sync_checkpoints

\* the command last started has returned (it was not killed)
BatchReturned ==
    /\ job.pc = "idle"
    /\ job.hist # <<>>
    /\ job.hist[Len(job.hist)].outcome = "done"

\* the tasks the command handed to the pool
SubmittedTasks == {job.submitted[i] : i \in 1..Len(job.submitted)}

\* the task of checkpoint cp raised somewhere
RaisedIn(cp) == \E x \in job.raised : x[1] = cp

StatusOf(cp) == {r.status : r \in {x \in sync_checkpoints : x.id = cp}}

\* C11: when a run_backfill or resume_backfill batch has returned, every task
\* of it whose source has a client and in which nothing raised had its fetch
\* invoked and has its checkpoint completed, whatever was raised in the other
\* tasks of the batch.
C11_TaskIsolation ==
    BatchReturned =>
        \A t \in SubmittedTasks :
            (t[1] \in Clients /\ ~RaisedIn(t[4])) =>
                /\ t[4] \in job.fetched
                /\ StatusOf(t[4]) = {"completed"}

\* a batch has returned in which one task's fetch raised and another task completed
C11_Witness ==
    /\ BatchReturned
    /\ \E t \in SubmittedTasks, u \in SubmittedTasks :
          /\ <<t[4], "fetch">> \in job.raised
          /\ StatusOf(t[4]) = {"failed"}
          /\ u[4] # t[4]
          /\ ~RaisedIn(u[4])
          /\ StatusOf(u[4]) = {"completed"}

\* C12: when a run_backfill or resume_backfill batch has returned, the
\* checkpoint of every task it handed to the pool is completed or failed; none
\* is left pending or running.
C12_EveryOutcomeRecorded ==
    BatchReturned =>
        \A t \in SubmittedTasks : StatusOf(t[4]) \subseteq {"completed", "failed"}

\* resume_backfill has just handed its tasks to the pool
ResumeSubmitted ==
    /\ job.pc = "pool"
    /\ job.cmd[1] = "resume_backfill"
    /\ job.queue = job.submitted
    /\ \A w \in 1..Concurrency : workers[w].pc = "idle"

\* a command was killed, and a resume_backfill then returned with nothing raised
ResumedAfterInterruption ==
    /\ BatchReturned
    /\ Len(job.hist) = 2
    /\ job.hist[1].outcome = "interrupted"
    /\ job.hist[2].cmd[1] = "resume_backfill"
    /\ job.raised = {}

\* C13: resume_backfill submits exactly the backfill checkpoints that are
\* pending, running or failed, each once; when it has returned after an
\* interruption with every fetch and write succeeding, each of them is
\* completed and no price_snapshots key has more than one row.
C13_ResumeFromLedger ==
    /\ ResumeSubmitted =>
          /\ {t[4] : t \in SubmittedTasks} =
                {r.id : r \in {x \in sync_checkpoints :
                                  /\ x.sync_type = "backfill"
                                  /\ x.status \in {"pending", "running", "failed"}}}
          /\ Cardinality({t[4] : t \in SubmittedTasks}) = Len(job.submitted)
    /\ ResumedAfterInterruption =>
          /\ \A t \in SubmittedTasks : StatusOf(t[4]) = {"completed"}
          /\ \A r \in price_snapshots : \A q \in price_snapshots :
                (/\ r.source = q.source /\ r.market_id = q.market_id
                 /\ r.contract_id = q.contract_id /\ r.snapshot_time = q.snapshot_time)
                   => r = q

FailedKeepsRecord ==
    \A r \in sync_checkpoints : \A q \in sync_checkpoints' :
        (r.id = q.id /\ r.status = "failed" /\ q.status = "failed") => q = r

\* every task starts at the fetch with zero counts, and a task that marks its
\* checkpoint completed has counted every market of the response and left a
\* snapshot of its window for every contract of it
WholeWindowExecuted ==
    \A w \in 1..Concurrency :
        /\ (workers[w].pc = "idle" /\ workers'[w].pc # "idle") =>
              /\ workers'[w].pc = "fetch"
              /\ workers'[w].stats = ZeroStats
              /\ workers'[w].mi = 0
        /\ (/\ workers[w].pc = "complete"
            /\ \E q \in sync_checkpoints' :
                  q.id = workers[w].checkpoint_id /\ q.status = "completed"
            /\ sync_checkpoints' # sync_checkpoints) =>
              LET t == workers[w]
                  ms == Feed(t.source)
              IN  /\ \E q \in sync_checkpoints' :
                        q.id = t.checkpoint_id /\ q.records_fetched = Len(ms)
                  /\ \A i \in 1..Len(ms) : \A k \in 1..Len(ms[i].contracts) :
                        \E p \in price_snapshots' :
                           /\ p.source = t.source
                           /\ p.market_id = ms[i].market_id
                           /\ p.contract_id = ms[i].contracts[k].contract_id
                           /\ p.snapshot_time = <<"iso", t.window_end>>

\* a failed checkpoint leaves failed only when resume_backfill's task marks it running
LeavesFailedOnlyInResume ==
    \A r \in sync_checkpoints : \A q \in sync_checkpoints' :
        (r.id = q.id /\ r.status = "failed" /\ q.status # "failed") =>
            /\ job'.cmd[1] = "resume_backfill"
            /\ q.status = "running"

\* a failed checkpoint leaves failed only when a command other than the one it
\* failed in takes it up: run_backfill resets it to pending while planning, or
\* a task of resume_backfill marks it running
LeavesFailedOnlyInLaterCommand ==
    \A r \in sync_checkpoints : \A q \in sync_checkpoints' :
        (r.id = q.id /\ r.status = "failed" /\ q.status # "failed") =>
            \/ /\ job.pc = "idle"
               /\ job'.cmd[1] = "run_backfill"
               /\ q.status = "pending"
            \/ /\ job.pc = "pool"
               /\ job.cmd[1] = "resume_backfill"
               /\ q.status = "running"
               /\ ~RaisedIn(r.id)
               /\ r.id \notin job.fetched

C16_BadRecordSkipped ==
    \A x \in job.raised :
        (x[2] = "record" /\ \A y \in job.raised : y[1] = x[1] => y = x) =>
            /\ "failed" \notin StatusOf(x[1])
            /\ BatchReturned => StatusOf(x[1]) = {"completed"}

\* a task raised in a store call, at an upsert or at a checkpoint update
StoreWriteRaised(cp) ==
    \E x \in job.raised : x[1] = cp /\ x[2] \in {"write", "update", "handler"}

\* C17: a task in which a store write raised has its checkpoint failed once it
\* has ended, not running, and when the batch has returned the other tasks
\* that have a client and raised nothing are completed.
C17_StoreErrorFailsOwnWindowOnly ==
    /\ \A t \in SubmittedTasks :
          (/\ StoreWriteRaised(t[4])
           /\ \A w \in 1..Concurrency : workers[w].checkpoint_id # t[4]) =>
              StatusOf(t[4]) = {"failed"}
    /\ BatchReturned =>
          \A t \in SubmittedTasks :
              (t[1] \in Clients /\ ~RaisedIn(t[4])) => StatusOf(t[4]) = {"completed"}

\* run_backfill has just planned: its tasks are in the pool and none has
\* started, or it returned at once with nothing to do
RunPlanned ==
    /\ job.pc = "pool" \/ job.hist # <<>>
    /\ job.cmd[1] = "run_backfill"
    /\ \/ /\ job.pc = "pool"
          /\ job.queue = job.submitted
          /\ \A w \in 1..Concurrency : workers[w].pc = "idle"
       \/ /\ job.pc = "idle"
          /\ job.submitted = <<>>

\* the windows of [0, e) of size s
WindowPairs(e, s) ==
    {<<k * s, IF k * s + s < e THEN k * s + s ELSE e>> : k \in {k \in 0..e : k * s < e}}

\* a completed checkpoint of the source has exactly this window
CompletedExactly(src, ws, we) ==
    \E c \in sync_checkpoints :
        /\ c.source = src
        /\ c.status = "completed"
        /\ c.window_start = <<"iso", ws>>
        /\ c.window_end = <<"iso", we>>

\* C18: the tasks run_backfill hands to the pool are exactly the (source,
\* window) pairs of its range for which no completed checkpoint of the source
\* has the identical (window_start, window_end).
C18_SkipOnExactWindowMatch ==
    RunPlanned =>
        {<<t[1], t[2], t[3]>> : t \in SubmittedTasks} =
            {x \in {<<src, win[1], win[2]>> :
                       src \in {"PredictIt", "Kalshi"},
                       win \in WindowPairs(job.cmd[2], job.cmd[3])} :
                ~CompletedExactly(x[1], x[2], x[3])}

\* days 0..2 were completed for PredictIt in windows of one day, and a
\* run_backfill of the same range with windows of two days submits [0, 2)
C18_Witness ==
    /\ RunPlanned
    /\ job.cmd = <<"run_backfill", 2, 2>>
    /\ CompletedExactly("PredictIt", 0, 1)
    /\ CompletedExactly("PredictIt", 1, 2)
    /\ <<"PredictIt", 0, 2>> \in {<<t[1], t[2], t[3]>> : t \in SubmittedTasks}

\* C19: every price_snapshots row has a contracts row of its (source,
\* market_id, contract_id) and every contracts row has a markets row of its
\* (source, market_id).
C19_ReferentialConsistency ==
    /\ \A p \in price_snapshots : \E c \in contracts :
          c.source = p.source /\ c.market_id = p.market_id /\ c.contract_id = p.contract_id
    /\ \A c \in contracts : \E m \in markets :
          m.source = c.source /\ m.market_id = c.market_id

\* a task failed part-way, after its market and contract were stored and
\* before a snapshot of its window was
C19_Witness ==
    /\ markets # {}
    /\ contracts # {}
    /\ \E x \in job.raised :
          /\ x[2] \in {"record", "write", "handler"}
          /\ \E r \in sync_checkpoints :
                /\ r.id = x[1]
                /\ \A p \in price_snapshots : p.snapshot_time # r.window_end

MarketKeys(tbl) == {<<r.source, r.market_id>> : r \in tbl}

ContractKeys(tbl) == {<<r.source, r.market_id, r.contract_id>> : r \in tbl}

SnapshotKeys(tbl) == {<<r.source, r.market_id, r.contract_id, r.snapshot_time>> : r \in tbl}

LedgerKeys(tbl) == {<<r.source, r.sync_type, r.window_start, r.window_end>> : r \in tbl}

\* C20: no step of the write path removes an identity key from markets,
\* contracts, price_snapshots or sync_checkpoints.
C20_KeysOnlyGrow ==
    [][/\ MarketKeys(markets) \subseteq MarketKeys(markets')
       /\ ContractKeys(contracts) \subseteq ContractKeys(contracts')
       /\ SnapshotKeys(price_snapshots) \subseteq SnapshotKeys(price_snapshots')
       /\ LedgerKeys(sync_checkpoints) \subseteq LedgerKeys(sync_checkpoints')
      ]_vars

\* every table has rows, a checkpoint was completed and another was reset by a
\* second run_backfill after it had failed
C20_Witness ==
    /\ markets # {} /\ contracts # {} /\ price_snapshots # {}
    /\ \E r \in sync_checkpoints : r.status = "completed"
    /\ Len(job.hist) >= 1
    /\ "failed" \in job.hist[1].statuses
    /\ job.pc = "pool"
    /\ job.cmd[1] = "run_backfill"
    /\ \E t \in SubmittedTasks : t[1] = "PredictIt" /\ StatusOf(t[4]) = {"pending"}

\* the started task of checkpoint cp has returned: its source has no client,
\* or it raised, or it marked its checkpoint completed
HasReturned(cp) ==
    \/ \E t \in SubmittedTasks : t[4] = cp /\ t[1] \notin Clients
    \/ RaisedIn(cp)
    \/ StatusOf(cp) = {"completed"}

\* the starts of the running command whose task has not returned
InFlight == {i \in 1..Len(job.started) : ~HasReturned(job.started[i])}

\* C21: while run_backfill or resume_backfill runs its pool, the tasks started
\* and not yet returned number at most Concurrency and no task has been
\* started twice; when the call has returned, every task of the pending task
\* list has been started exactly once.
C21_BoundedPoolStartsEachTaskOnce ==
    /\ job.pc = "pool" => Cardinality(InFlight) <= Concurrency
    /\ \A i \in 1..Len(job.started), k \in 1..Len(job.started) :
          job.started[i] = job.started[k] => i = k
    /\ BatchReturned =>
          /\ Len(job.started) = Len(job.submitted)
          /\ {job.started[i] : i \in 1..Len(job.started)} = {t[4] : t \in SubmittedTasks}

\* Concurrency tasks are in flight while further tasks wait in the queue
C21_Witness ==
    /\ job.pc = "pool"
    /\ Cardinality(InFlight) = Concurrency
    /\ job.queue # <<>>
    /\ Len(job.submitted) > Concurrency

(***************************************************************************)
(* aggregator.py: MarketAggregator.  A name is a sequence of pieces: the   *)
(* string is its pieces joined by single spaces, so an empty piece stands  *)
(* for one more blank (leading, trailing or between two words).  A piece   *)
(* is a word, a punctuation mark standing alone, or a word written with    *)
(* marks inside it ("G.O.P").                                              *)
(***************************************************************************)
\* pieces a name may have
MaxPieces == 3

\* str.lower() of a piece
lower_piece(w) ==
    CASE w = "Trump" -> "trump"
      [] w = "Harris" -> "harris"
      [] w = "To" -> "to"
      [] w = "Win" -> "win"
      [] w = "Wins" -> "wins"
      [] w = "Winner" -> "winner"
      [] w = "The" -> "the"
      [] w = "Presidential" -> "presidential"
      [] w = "Election" -> "election"
      [] w = "GOP" -> "gop"
      [] w = "G.O.P" -> "g.o.p"
      [] OTHER -> w

lower(name) == [i \in 1..Len(name) |-> lower_piece(name[i])]

\* r'\b(to win|will win|wins?|winner)\b'
WinPhrases == {<<"to", "win">>, <<"will", "win">>}

WinWords == {"win", "wins", "winner"}

\* the marks matched by r'[^\w\s]' among those of the model; the underscore is
\* a \w character
NonWordMarks == {",", ".", "-", "?"}

\* the words of r'\b(the|a|an)\b', of the years, of the election boilerplate
\* and of the party names, then the punctuation; patterns[1] is the win pattern
patterns ==
    << WinPhrases \cup {<<w>> : w \in WinWords},
       {<<"the">>, <<"a">>, <<"an">>},
       {<<"2024">>, <<"2025">>, <<"2026">>, <<"2027">>, <<"2028">>, <<"2029">>, <<"2030">>},
       {<<"presidential">>, <<"president">>, <<"election">>, <<"nominee">>,
        <<"nomination">>},
       {<<"republican">>, <<"democratic">>, <<"gop">>, <<"dem">>},
       {<<m>> : m \in NonWordMarks} >>

\* a piece after the marks inside it are replaced by the empty string: the
\* letters they separated are joined
without_marks(w) == IF w = "g.o.p" THEN "gop" ELSE w

\* re.sub(pattern, '', name): scanning from the left, a match is replaced by
\* the empty string, which leaves the blanks around it; a two-word alternative
\* matches two pieces that a single blank separates; the word patterns match
\* whole words only, the punctuation pattern also matches inside a piece
RECURSIVE re_sub(_, _)
re_sub(pattern, name) ==
    IF name = <<>> THEN <<>>
    ELSE IF Len(name) >= 2 /\ <<name[1], name[2]>> \in pattern
         THEN <<"">> \o re_sub(pattern, SubSeq(name, 3, Len(name)))
         ELSE IF <<name[1]>> \in pattern
              THEN <<"">> \o re_sub(pattern, Tail(name))
              ELSE <<IF \E m \in NonWordMarks : <<m>> \in pattern
                     THEN without_marks(name[1]) ELSE name[1]>>
                   \o re_sub(pattern, Tail(name))

\* ' '.join(name.split()), then strip()
collapse_whitespace(name) == SelectSeq(name, LAMBDA w : w # "")

\* one step of _normalize_name: lower(), one turn of "for pattern in
\* patterns", or the collapse of whitespace and the return
normalize_step(c) ==
    CASE c.pc = "lower" -> [c EXCEPT !.pc = "patterns", !.name = lower(@), !.i = 1]
      [] c.pc = "patterns" /\ c.i <= Len(patterns) ->
            [c EXCEPT !.name = re_sub(patterns[c.i], @), !.i = @ + 1]
      [] c.pc = "patterns" /\ c.i > Len(patterns) ->
            [c EXCEPT !.pc = "returned", !.name = collapse_whitespace(@)]

RECURSIVE normalize_run(_)
normalize_run(c) == IF c.pc = "returned" THEN c.name ELSE normalize_run(normalize_step(c))

normalize_call(name) == [pc |-> "lower", arg |-> name, name |-> name, i |-> 0]

_normalize_name(name) == normalize_run(normalize_call(name))

\* the pieces of the names given to _normalize_name
NamePieces == {"Trump", "trump", "to", "win", "Wins", "the", "2028", "gop", "G.O.P",
               ",", "_", ""}

RECURSIVE NamesUpTo(_)
NamesUpTo(n) ==
    IF n = 0 THEN {<<>>}
    ELSE LET shorter == NamesUpTo(n - 1)
         IN  shorter \cup {Append(x, w) : x \in shorter, w \in NamePieces}

TrumpToWin == <<"Trump", "to", "Win", "the", "2028", "Presidential", "Election">>

TrumpWins == <<"Trump", "Wins", "Presidential", "Election">>

InitNormalize ==
    /\ markets = {} /\ contracts = {} /\ price_snapshots = {} /\ sync_checkpoints = {}
    /\ seq = EmptySeq /\ last = NoCall /\ first_id = {} /\ gw = NoCall
    /\ workers = <<>> /\ job = NoCall
    /\ \E name \in NamesUpTo(MaxPieces) \cup {TrumpToWin, TrumpWins} :
          aggregator = normalize_call(name)

\* name = name.lower()
NormalizeLower ==
    /\ aggregator.pc = "lower"
    /\ aggregator' = normalize_step(aggregator)
    /\ UNCHANGED <<markets, contracts, price_snapshots, sync_checkpoints, seq, last,
                   first_id, gw, workers, job>>

\* name = re.sub(pattern, '', name)
NormalizeSub ==
    /\ aggregator.pc = "patterns"
    /\ aggregator.i <= Len(patterns)
    /\ aggregator' = normalize_step(aggregator)
    /\ UNCHANGED <<markets, contracts, price_snapshots, sync_checkpoints, seq, last,
                   first_id, gw, workers, job>>

\* name = ' '.join(name.split()); return name.strip()
NormalizeReturn ==
    /\ aggregator.pc = "patterns"
    /\ aggregator.i > Len(patterns)
    /\ aggregator' = normalize_step(aggregator)
    /\ UNCHANGED <<markets, contracts, price_snapshots, sync_checkpoints, seq, last,
                   first_id, gw, workers, job>>

NextNormalize ==
    \/ NormalizeLower
    \/ NormalizeSub
    \/ NormalizeReturn

SpecNormalize == InitNormalize /\ [][NextNormalize]_vars

\* the strip list: win phrases, articles, years 2024-2030, election and
\* nomination boilerplate, party names, punctuation
StripList ==
    {<<"to", "win">>, <<"will", "win">>, <<"win">>, <<"wins">>, <<"winner">>,
     <<"the">>, <<"a">>, <<"an">>,
     <<"2024">>, <<"2025">>, <<"2026">>, <<"2027">>, <<"2028">>, <<"2029">>, <<"2030">>,
     <<"presidential">>, <<"president">>, <<"election">>, <<"nominee">>, <<"nomination">>,
     <<"republican">>, <<"democratic">>, <<"gop">>, <<"dem">>,
     <<",">>, <<".">>, <<"-">>, <<"?">>}

\* one more blank
Blank == <<"">>

\* spellings of one word that differ by letter case only
Casings == {{"Trump", "trump"}, {"to", "To"}, {"win", "Win"}, {"wins", "Wins"},
            {"the", "The"}, {"gop", "GOP"}}

SameWordOtherCase(u, w) == \E c \in Casings : u \in c /\ w \in c

\* the names that differ from name by one token of the strip list, by one
\* blank or by the letter case of one word
NamesDifferingByOne(name) ==
    {SubSeq(name, 1, k) \o t \o SubSeq(name, k + 1, Len(name)) :
        k \in 0..Len(name), t \in StripList \cup {Blank}}
    \cup {[name EXCEPT ![x[1]] = x[2]] :
            x \in {y \in (1..Len(name)) \X UNION Casings : SameWordOtherCase(name[y[1]], y[2])}}

\* C27: the two names of the example normalize to the same key, and a name
\* that differs from the normalized one only by a token of the strip list, by
\* whitespace or by letter case normalizes to the key returned.
C27_SameKeyUpToStripList ==
    aggregator.pc = "returned" =>
        /\ _normalize_name(TrumpToWin) = _normalize_name(TrumpWins)
        /\ \A other \in NamesDifferingByOne(aggregator.arg) :
              _normalize_name(other) = aggregator.name

(***************************************************************************)
(* aggregator.py: matching and arbitrage.  Prices are integer hundredths.  *)
(* results is the sequence of entries in the order of "for source_name,    *)
(* markets in self.results.items(): for market in markets: for contract in *)
(* market.contracts": those of one source together.                        *)
(***************************************************************************)
\* entries of self.results
MaxEntries == 4

\* the price 1
One == 100

\* min_spread: float = 0.02
DefaultMinSpread == 2

\* how each source words the contract of candidate k
Listing(source, k) ==
    IF source = "PredictIt"
    THEN [market_name |-> <<"2028", "Election", "Winner">>,
          contract_name |-> IF k = 1 THEN <<"Trump">> ELSE <<"Harris">>]
    ELSE [market_name |-> <<"Presidential", "Election">>,
          contract_name |-> IF k = 1 THEN <<"Trump", "to", "Win">>
                                     ELSE <<"Harris", "to", "Win">>]

\* yes_price, no_price and volume of a ContractData
Quotes ==
    {[yes_price |-> Some(30), no_price |-> None, volume |-> None],
     [yes_price |-> Some(45), no_price |-> Some(52), volume |-> Some(7)],
     [yes_price |-> Some(46), no_price |-> Some(0), volume |-> Some(0)],
     [yes_price |-> Some(0), no_price |-> Some(0), volume |-> None],
     [yes_price |-> None, no_price |-> Some(52), volume |-> Some(5)]}

\* an entry: (source_name, market, contract)
Entry(source, k, q) ==
    [source |-> source, market_name |-> Listing(source, k).market_name,
     contract_name |-> Listing(source, k).contract_name,
     yes_price |-> q.yes_price, no_price |-> q.no_price, volume |-> q.volume]

\* the lists of at most n entries a fetch from source can return
RECURSIVE MarketLists(_, _)
MarketLists(source, n) ==
    IF n = 0 THEN {<<>>}
    ELSE LET shorter == MarketLists(source, n - 1)
         IN  shorter \cup {Append(x, Entry(source, k, q)) :
                              x \in shorter, k \in {1, 2}, q \in Quotes}

\* the truth value of an optional number
truthy(x) == x # None /\ x # Some(0)

\* x or d
or_else(x, d) == IF truthy(x) THEN x[1] ELSE d

\* normalized = self._normalize_name(f"{market.market_name} {contract.contract_name}")
normalized_name(e) == _normalize_name(e.market_name \o e.contract_name)

\* name_index as the list of its items, in insertion order
RECURSIVE index_entries(_, _)
index_entries(entries, name_index) ==
    IF entries = <<>> THEN name_index
    ELSE LET e == Head(entries)
             normalized == normalized_name(e)
             at == {i \in 1..Len(name_index) : name_index[i].name = normalized}
         IN  index_entries(Tail(entries),
                 IF at = {}
                 THEN Append(name_index, [name |-> normalized, entries |-> <<e>>])
                 ELSE [i \in 1..Len(name_index) |->
                          IF i \in at
                          THEN [name_index[i] EXCEPT !.entries = Append(@, e)]
                          ELSE name_index[i]])

\* (source_name, yes_price, no_price) of an entry
price_of(e) ==
    LET yes_price == or_else(e.yes_price, 0)
        no_price == or_else(e.no_price, One - yes_price)
    IN  <<e.source, yes_price, no_price>>

\* mutant: every entry is priced
prices_of_every_entry(entries) == [i \in 1..Len(entries) |-> price_of(entries[i])]

\* the list prices: the entries with yes_price > 0
prices_of(entries) ==
    SelectSeq([i \in 1..Len(entries) |-> price_of(entries[i])], LAMBDA x : x[2] > 0)

\* max(prices, key=lambda x: x[k]): the first of the largest
max_by(prices, k) ==
    prices[CHOOSE i \in 1..Len(prices) :
              /\ \A j \in 1..Len(prices) : prices[j][k] <= prices[i][k]
              /\ \A j \in 1..(i - 1) : prices[j][k] < prices[i][k]]

\* min(p[1] for p in prices)
min_yes(prices) ==
    CHOOSE y \in {prices[i][2] : i \in 1..Len(prices)} :
        \A i \in 1..Len(prices) : y <= prices[i][2]

\* mutant: the spread is taken from the highest yes price
arbitrage_from_best_yes(prices) == (One - max_by(prices, 3)[3]) - max_by(prices, 2)[2]

\* arbitrage = (1 - best_no[2]) - min(p[1] for p in prices)
arbitrage(prices) == (One - max_by(prices, 3)[3]) - min_yes(prices)

\* mutant: only the volume of a priced entry is added
volume_added_if_priced(e) ==
    IF truthy(e.volume) /\ or_else(e.yes_price, 0) > 0 THEN e.volume[1] ELSE 0

\* what "if contract.volume: total_volume += contract.volume" adds for an entry
volume_added(e) == IF truthy(e.volume) THEN e.volume[1] ELSE 0

RECURSIVE total_volume_of(_)
total_volume_of(entries) ==
    IF entries = <<>> THEN 0
    ELSE volume_added(Head(entries)) + total_volume_of(Tail(entries))

\* sources[source_name] = market, for the first entry of each source
sources_of(entries) ==
    [source \in {entries[i].source : i \in 1..Len(entries)} |->
        entries[CHOOSE i \in 1..Len(entries) :
                   /\ entries[i].source = source
                   /\ \A j \in 1..(i - 1) : entries[j].source # source].market_name]

_aggregate_entries(name, entries) ==
    LET prices == prices_of(entries)
        best_yes == max_by(prices, 2)
        best_no == max_by(prices, 3)
    IN
    IF Len(prices) < 2 THEN None
    ELSE Some([canonical_name |-> name,
               sources |-> sources_of(entries),
               best_yes_price |-> best_yes[2],
               best_no_price |-> best_no[3],
               best_yes_source |-> best_yes[1],
               best_no_source |-> best_no[1],
               arbitrage_spread |-> arbitrage(prices),
               total_volume |-> total_volume_of(entries)])

\* mutant: a group is aggregated whatever its sources
aggregate_group_of_any_sources(g) == _aggregate_entries(g.name, g.entries)

\* one turn of "for normalized_name, entries in name_index.items()": None
\* when the group is skipped ("Need at least 2 sources", or no aggregate)
aggregate_group(g) ==
    LET sources == {g.entries[i].source : i \in 1..Len(g.entries)}
    IN  IF Cardinality(sources) < 2 THEN None
        ELSE _aggregate_entries(g.name, g.entries)

RECURSIVE aggregate_groups(_)
aggregate_groups(name_index) ==
    IF name_index = <<>> THEN <<>>
    ELSE LET agg == aggregate_group(Head(name_index))
         IN  (IF agg = None THEN <<>> ELSE <<agg[1]>>) \o aggregate_groups(Tail(name_index))

\* mutant: the groups stay in the order of name_index
sort_by_spread_keeps_order(aggregated) == aggregated

\* aggregated.sort(key=lambda x: x.arbitrage_spread, reverse=True): a stable
\* sort, so groups of one spread keep their order
RECURSIVE sort_by_spread(_)
sort_by_spread(aggregated) ==
    IF aggregated = <<>> THEN <<>>
    ELSE LET x == aggregated[Len(aggregated)]
             sorted == sort_by_spread(SubSeq(aggregated, 1, Len(aggregated) - 1))
             n == Cardinality({i \in 1..Len(sorted) :
                                  sorted[i].arbitrage_spread >= x.arbitrage_spread})
         IN  SubSeq(sorted, 1, n) \o <<x>> \o SubSeq(sorted, n + 1, Len(sorted))

find_matching_markets(results) ==
    sort_by_spread(aggregate_groups(index_entries(results, <<>>)))

detect_arbitrage(results, min_spread) ==
    SelectSeq(find_matching_markets(results), LAMBDA m : m.arbitrage_spread >= min_spread)

\* the thresholds detect_arbitrage is called with
MinSpreads == {DefaultMinSpread, DefaultMinSpread + 1}

\* fetch_all: self.results = {}
InitAggregator ==
    /\ markets = {} /\ contracts = {} /\ price_snapshots = {} /\ sync_checkpoints = {}
    /\ seq = EmptySeq /\ last = NoCall /\ first_id = {} /\ gw = NoCall
    /\ workers = <<>> /\ job = NoCall
    /\ aggregator = [pc |-> "fetching", results |-> <<>>, min_spread |-> None,
                     matches |-> <<>>, opportunities |-> <<>>]

\* fetch_all: self.results[source_name] = markets, for the next future that
\* completes; a source whose fetch raises adds nothing
SourceFetched ==
    /\ aggregator.pc = "fetching"
    /\ \E source \in Sources :
          /\ \A i \in 1..Len(aggregator.results) : aggregator.results[i].source # source
          /\ \E fetched \in MarketLists(source, MaxEntries - Len(aggregator.results)) :
                /\ fetched # <<>>
                /\ aggregator' = [aggregator EXCEPT !.results = @ \o fetched]
    /\ UNCHANGED <<markets, contracts, price_snapshots, sync_checkpoints, seq, last,
                   first_id, gw, workers, job>>

\* a call of find_matching_markets()
FindMatchingMarkets ==
    /\ aggregator.pc = "fetching"
    /\ aggregator' = [aggregator EXCEPT !.pc = "matched",
                         !.matches = find_matching_markets(aggregator.results)]
    /\ UNCHANGED <<markets, contracts, price_snapshots, sync_checkpoints, seq, last,
                   first_id, gw, workers, job>>

\* a call of detect_arbitrage(min_spread)
DetectArbitrage ==
    /\ aggregator.pc = "fetching"
    /\ \E min_spread \in MinSpreads :
          aggregator' = [aggregator EXCEPT !.pc = "detected",
                            !.min_spread = Some(min_spread),
                            !.matches = find_matching_markets(aggregator.results),
                            !.opportunities = detect_arbitrage(aggregator.results,
                                                               min_spread)]
    /\ UNCHANGED <<markets, contracts, price_snapshots, sync_checkpoints, seq, last,
                   first_id, gw, workers, job>>

NextAggregator ==
    \/ SourceFetched
    \/ FindMatchingMarkets
    \/ DetectArbitrage

SpecAggregator == InitAggregator /\ [][NextAggregator]_vars

\* the outcome an entry is about, as the key its group is reported under
KeyOf(e) == IF e.contract_name[1] = "Trump" THEN <<"trump">> ELSE <<"harris">>

OutcomeKeys == {<<"trump">>, <<"harris">>}

\* the entries of the results that are about one outcome, in their order
GroupOf(key) == SelectSeq(aggregator.results, LAMBDA e : KeyOf(e) = key)

SourcesOf(g) == {g[i].source : i \in 1..Len(g)}

\* the group reported under key in a list of groups, if any
ReportedAt(groups, key) == {i \in 1..Len(groups) : groups[i].canonical_name = key}

\* the group is the one of the example: two entries of two sources, one
\* quoting yes = 0.30 and no NO price, the other yes = 0.45 and no = 0.52
IsExampleGroup(g) ==
    /\ Len(g) = 2
    /\ g[1].source # g[2].source
    /\ \E x \in {1, 2}, y \in {1, 2} :
          /\ x # y
          /\ g[x].yes_price = Some(30) /\ g[x].no_price = None
          /\ g[y].yes_price = Some(45) /\ g[y].no_price = Some(52)

\* C22: for the group of the example (X: yes 0.30, no NO price; Y: yes 0.45,
\* no 0.52) the aggregation reports best_no 0.52 and arbitrage_spread 0.18,
\* and detect_arbitrage with the default threshold returns the group, ahead
\* of every group of a lower spread.
C22_ExampleSpreadIsEighteen ==
    (aggregator.pc = "detected" /\ aggregator.min_spread = Some(DefaultMinSpread)) =>
        \A key \in OutcomeKeys :
            IsExampleGroup(GroupOf(key)) =>
                \E i \in ReportedAt(aggregator.opportunities, key) :
                    /\ aggregator.opportunities[i].best_no_price = 52
                    /\ aggregator.opportunities[i].arbitrage_spread = 18
                    /\ \A j \in 1..Len(aggregator.opportunities) :
                          aggregator.opportunities[j].arbitrage_spread < 18 => i < j

\* the entry quotes a positive yes_price
HasYesPrice(e) == e.yes_price # None /\ e.yes_price[1] > 0

\* the entry's venue quotes no NO side: the field is empty or 0
NoPriceMissing(e) == e.no_price = None \/ e.no_price = Some(0)

NoPriceOrDerived(e) == IF NoPriceMissing(e) THEN 100 - e.yes_price[1] ELSE e.no_price[1]

PricedEntries(g) == {i \in 1..Len(g) : HasYesPrice(g[i])}

MaxOf(S) == CHOOSE x \in S : \A y \in S : y <= x

MinOf(S) == CHOOSE x \in S : \A y \in S : x <= y

\* C23: for every group find_matching_markets returns, over the entries with
\* yes_price > 0 and with a missing no_price taken as 1 - yes_price,
\* arbitrage_spread = (1 - max no_price) - min yes_price and best_no_price is
\* that max.
C23_SpreadFormula ==
    aggregator.pc = "matched" =>
        \A k \in 1..Len(aggregator.matches) :
            LET m == aggregator.matches[k]
                g == GroupOf(m.canonical_name)
                max_no == MaxOf({NoPriceOrDerived(g[i]) : i \in PricedEntries(g)})
                min_yes_price == MinOf({g[i].yes_price[1] : i \in PricedEntries(g)})
            IN  /\ PricedEntries(g) # {}
                /\ m.best_no_price = max_no
                /\ m.arbitrage_spread = (100 - max_no) - min_yes_price

\* a returned group whose largest no_price is a derived one, with another
\* entry that quotes its no_price and an entry without a yes_price
C23_Witness ==
    /\ aggregator.pc = "matched"
    /\ \E k \in 1..Len(aggregator.matches) :
          LET m == aggregator.matches[k]
              g == GroupOf(m.canonical_name)
          IN  /\ \E i \in PricedEntries(g) :
                    NoPriceMissing(g[i]) /\ m.best_no_price = 100 - g[i].yes_price[1]
              /\ \E i \in PricedEntries(g) : ~NoPriceMissing(g[i])
              /\ \E i \in 1..Len(g) : ~HasYesPrice(g[i])
              /\ m.arbitrage_spread # 0

\* C24: every group find_matching_markets returns has entries of at least 2
\* distinct sources, and a normalized name whose entries all come from one
\* source is not in the result, however many entries it has.
C24_TwoSourcesPerGroup ==
    aggregator.pc = "matched" =>
        /\ \A k \in 1..Len(aggregator.matches) :
              /\ Cardinality(SourcesOf(GroupOf(aggregator.matches[k].canonical_name))) >= 2
              /\ Cardinality(DOMAIN aggregator.matches[k].sources) >= 2
        /\ \A key \in OutcomeKeys :
              Cardinality(SourcesOf(GroupOf(key))) < 2
                  => ReportedAt(aggregator.matches, key) = {}

\* one outcome has two priced entries of a single source and is not
\* returned, while the other outcome is
C24_Witness ==
    /\ aggregator.pc = "matched"
    /\ Len(aggregator.matches) = 1
    /\ \E key \in OutcomeKeys :
          /\ Cardinality(SourcesOf(GroupOf(key))) = 1
          /\ Cardinality(PricedEntries(GroupOf(key))) = 2
          /\ ReportedAt(aggregator.matches, key) = {}

\* C25: a group with fewer than 2 entries of yes_price > 0 (an entry whose
\* yes_price is 0 or missing does not count) is in the output of neither
\* find_matching_markets nor detect_arbitrage.
C25_TwoPricedEntriesPerGroup ==
    aggregator.pc \in {"matched", "detected"} =>
        \A key \in OutcomeKeys :
            Cardinality(PricedEntries(GroupOf(key))) < 2 =>
                /\ ReportedAt(aggregator.matches, key) = {}
                /\ ReportedAt(aggregator.opportunities, key) = {}

\* a group of two sources with one priced entry, one entry of yes_price 0 and
\* one without yes_price is skipped
C25_Witness ==
    /\ aggregator.pc = "matched"
    /\ \E key \in OutcomeKeys :
          LET g == GroupOf(key)
          IN  /\ Cardinality(SourcesOf(g)) = 2
              /\ Cardinality(PricedEntries(g)) = 1
              /\ \E i \in 1..Len(g) : g[i].yes_price = Some(0)
              /\ \E i \in 1..Len(g) : g[i].yes_price = None
              /\ ReportedAt(aggregator.matches, key) = {}

\* the positions of the groups of spread >= min_spread
AtOrAbove(groups, min_spread) ==
    {i \in 1..Len(groups) : groups[i].arbitrage_spread >= min_spread}

\* the k-th smallest member of a set of positions
KthOf(P, k) == CHOOSE i \in P : Cardinality({j \in P : j <= i}) = k

\* C26: find_matching_markets returns its groups in non-increasing order of
\* arbitrage_spread, and detect_arbitrage(min_spread) returns exactly the
\* groups of spread >= min_spread, in the same relative order.
C26_SortedThenFiltered ==
    /\ aggregator.pc \in {"matched", "detected"} =>
          \A i \in 1..Len(aggregator.matches), j \in 1..Len(aggregator.matches) :
              i < j => aggregator.matches[i].arbitrage_spread
                          >= aggregator.matches[j].arbitrage_spread
    /\ aggregator.pc = "detected" =>
          LET kept == AtOrAbove(aggregator.matches, aggregator.min_spread[1])
          IN  /\ Len(aggregator.opportunities) = Cardinality(kept)
              /\ \A k \in 1..Len(aggregator.opportunities) :
                    aggregator.opportunities[k] = aggregator.matches[KthOf(kept, k)]

\* two groups are matched, the one whose entries come later in the results
\* has the higher spread and is the only one at or above the threshold
C26_Witness ==
    /\ aggregator.pc = "detected"
    /\ Len(aggregator.matches) = 2
    /\ Len(aggregator.opportunities) = 1
    /\ aggregator.matches[1].canonical_name # KeyOf(aggregator.results[1])
    /\ aggregator.opportunities[1].arbitrage_spread = aggregator.min_spread[1]

\* the results with every contract's volume replaced by v
WithVolumes(results, v) == [i \in 1..Len(results) |-> [results[i] EXCEPT !.volume = v]]

\* name, spread and best prices of each group, in the order of the list
SpreadsOf(groups) ==
    [i \in 1..Len(groups) |->
        <<groups[i].canonical_name, groups[i].arbitrage_spread,
          groups[i].best_yes_price, groups[i].best_no_price>>]

RECURSIVE SumOfVolumes(_)
SumOfVolumes(g) ==
    IF g = <<>> THEN 0
    ELSE (IF Head(g).volume = None THEN 0 ELSE Head(g).volume[1]) + SumOfVolumes(Tail(g))

\* C28: the groups, their spreads and their order are those of the same
\* results with other volumes (every volume missing, every volume 9), and the
\* total_volume of a group is the sum of the volumes its entries have.
C28_VolumeOnlyDisplayed ==
    aggregator.pc = "matched" =>
        /\ \A v \in {None, Some(9)} :
              SpreadsOf(find_matching_markets(WithVolumes(aggregator.results, v)))
                  = SpreadsOf(aggregator.matches)
        /\ \A k \in 1..Len(aggregator.matches) :
              aggregator.matches[k].total_volume
                  = SumOfVolumes(GroupOf(aggregator.matches[k].canonical_name))

\* a returned group with an entry of no yes_price but a volume, counted in
\* its total_volume together with the volume of a priced entry
C28_Witness ==
    /\ aggregator.pc = "matched"
    /\ \E k \in 1..Len(aggregator.matches) :
          LET g == GroupOf(aggregator.matches[k].canonical_name)
          IN  /\ \E i \in 1..Len(g) : ~HasYesPrice(g[i]) /\ g[i].volume = Some(5)
              /\ \E i \in PricedEntries(g) : g[i].volume = Some(7)
              /\ aggregator.matches[k].total_volume = 12

\* the filters a ledger query may be given: none, or a value
SourceFilters == {None} \cup {Some(x) : x \in Sources}

SyncTypeFilters == {None} \cup {Some(x) : x \in SyncTypes}

\* the rows a query with these filters is about
RowsMatching(source, sync_type) ==
    {r \in sync_checkpoints : /\ source \in {None, Some(r.source)}
                              /\ sync_type \in {None, Some(r.sync_type)}}

RECURSIVE ContractSteps(_, _, _, _)
ContractSteps(source, m, k, snapshot_time) ==
    IF k > Len(m.contracts) THEN <<>>
    ELSE << <<"upsert_contract", <<source, m.market_id, m.contracts[k].contract_id>>>>,
            <<"upsert_price_snapshot",
              <<source, m.market_id, m.contracts[k].contract_id, snapshot_time>>>> >>
         \o ContractSteps(source, m, k + 1, snapshot_time)

RECURSIVE MarketSteps(_, _, _)
MarketSteps(source, i, snapshot_time) ==
    IF i > Len(Feed(source)) THEN <<>>
    ELSE << <<"upsert_market", <<source, Feed(source)[i].market_id>>>> >>
         \o ContractSteps(source, Feed(source)[i], 1, snapshot_time)
         \o MarketSteps(source, i + 1, snapshot_time)

\* the calls of a whole task in the order the claim gives: the checkpoint
\* marked running, the fetch, each market followed by each of its contracts,
\* each contract followed by its one snapshot, the checkpoint marked completed
StepsInOrder(t) ==
    << <<"running">>, <<"fetch">> >> \o MarketSteps(t[1], 1, <<"iso", t[3]>>)
        \o << <<"completed">> >>

IsPrefixOf(a, b) == Len(a) <= Len(b) /\ a = SubSeq(b, 1, Len(a))

PassedColumns == {"status", "records_fetched", "records_inserted", "records_updated",
                  "records_deduped", "error_message"}

\* the columns of a checkpoint row
CheckpointColumns == {"id", "source", "sync_type", "window_start", "window_end", "status",
                      "records_fetched", "records_inserted", "records_updated",
                      "records_deduped", "error_message", "started_at", "completed_at"}

\* the value a column holds once a is passed for it: error_message is
\* nullable, the others are not
StoredValue(c, a) == IF c = "error_message" THEN a[c] ELSE a[c][1]

\* column c of the updated row q is what the call with arguments a makes of
\* the row r
ColumnAfterUpdate(c, r, q, a) ==
    IF c \in PassedColumns /\ a[c] # None THEN q[c] = StoredValue(c, a)
    ELSE IF c = "started_at" /\ a.status = Some("running") THEN q[c] # None
    ELSE IF c = "completed_at" /\ a.status \in {Some("completed"), Some("failed")}
         THEN q[c] # None
    ELSE q[c] = r[c]

\* C31: a call of update_sync_checkpoint sets, on the row with the id, the
\* columns it was passed, started_at when the status passed is running and
\* completed_at when it is completed or failed, and nothing else; the other
\* rows stay as they are; and every completed or failed row has completed_at.
C31_UpdateTouchesOnlyWhatIsPassed ==
    [][/\ last'.op = "update_sync_checkpoint" =>
             /\ \A r \in sync_checkpoints : r.id # last'.id => r \in sync_checkpoints'
             /\ Cardinality(sync_checkpoints') = Cardinality(sync_checkpoints)
             /\ \A r \in sync_checkpoints : r.id = last'.id =>
                   \E q \in sync_checkpoints' :
                       /\ q.id = r.id
                       /\ \A c \in CheckpointColumns : ColumnAfterUpdate(c, r, q, last'.v)
       /\ \A q \in sync_checkpoints' :
             q.status \in {"completed", "failed"} => q.completed_at # None
      ]_vars

\* a checkpoint that was running was updated to failed with its error and
\* counts, next to another checkpoint
C31_Witness ==
    /\ last.op = "update_sync_checkpoint"
    /\ last.v.status = Some("failed")
    /\ \E r \in last.pre : r.status = "running" /\ r.started_at # None
    /\ \E q \in sync_checkpoints :
          /\ q.id = last.id /\ q.status = "failed" /\ q.started_at # None
          /\ q.completed_at # None /\ q.error_message # None
    /\ \E q \in sync_checkpoints : q.id # last.id

\* the checkpoints the command completed
CompletedByCommand ==
    {r \in sync_checkpoints :
        /\ r.status = "completed"
        /\ r.id \in DOMAIN job.steps
        /\ \E i \in 1..Len(job.steps[r.id]) : job.steps[r.id][i] = <<"completed">>}

\* what the upsert_price_snapshot calls of the task of checkpoint cp returned
ReturnedBy(cp) == IF cp \in DOMAIN job.was_inserted THEN job.was_inserted[cp] ELSE <<>>

\* how many of the values of the sequence ret are b
CountOf(ret, b) == Cardinality({i \in 1..Len(ret) : ret[i] = b})

\* the contracts the task of checkpoint cp went through
ContractsProcessed(cp) ==
    Cardinality({i \in 1..Len(job.steps[cp]) : job.steps[cp][i][1] = "upsert_contract"})

\* the command has returned
CommandReturned ==
    /\ job.pc = "idle"
    /\ job.hist # <<>>
    /\ job.hist[Len(job.hist)].outcome = "done"

\* the snapshot keys the tasks of the command write are different
SnapshotKeysDiffer ==
    \A i, k \in 1..Len(job.submitted) :
        i # k => <<job.submitted[i][1], job.submitted[i][3]>>
                     # <<job.submitted[k][1], job.submitted[k][3]>>

RECURSIVE SumOfInserted(_)
SumOfInserted(rows) ==
    IF rows = {} THEN 0
    ELSE LET r == CHOOSE x \in rows : TRUE
         IN  r.records_inserted + SumOfInserted(rows \ {r})

\* the checkpoints of the tasks the command submitted
CheckpointsOfCommand ==
    {r \in sync_checkpoints : \E i \in 1..Len(job.submitted) : job.submitted[i][4] = r.id}

\* C32 (first part): a checkpoint the command completed has records_inserted
\* the number of its upsert_price_snapshot calls that returned was_inserted
\* true, records_deduped the number that returned false, and the two add up to
\* the contracts its task processed.
C32_CountsMatchReturns ==
    \A r \in CompletedByCommand :
        /\ r.records_inserted = CountOf(ReturnedBy(r.id), TRUE)
        /\ r.records_deduped = CountOf(ReturnedBy(r.id), FALSE)
        /\ r.records_inserted + r.records_deduped = ContractsProcessed(r.id)

\* C32: the first part, and when a command whose tasks write different
\* snapshot keys has returned, the records_inserted of its tasks add up to the
\* price_snapshots rows it added.
C32_InsertedCountsAddUp ==
    /\ C32_CountsMatchReturns
    /\ (CommandReturned /\ SnapshotKeysDiffer) =>
          SumOfInserted(CheckpointsOfCommand)
              = Cardinality(price_snapshots) - job.snapshots_before

\* the priced entries of the group that quote its lowest yes_price
MinYesEntries(g) ==
    {i \in PricedEntries(g) : \A k \in PricedEntries(g) : g[i].yes_price[1] <= g[k].yes_price[1]}

\* the priced entries of the group that have its highest no_price, quoted or derived
MaxNoEntries(g) ==
    {i \in PricedEntries(g) :
        \A k \in PricedEntries(g) : NoPriceOrDerived(g[k]) <= NoPriceOrDerived(g[i])}

\* C33: in every group find_matching_markets returns, the entry supplying the
\* lowest yes_price and the entry supplying the highest no_price are of two
\* different sources.
C33_SpreadAcrossTwoSources ==
    aggregator.pc = "matched" =>
        \A k \in 1..Len(aggregator.matches) :
            LET g == GroupOf(aggregator.matches[k].canonical_name)
            IN  \E i \in MinYesEntries(g), n \in MaxNoEntries(g) : g[i].source # g[n].source

\* the sources that have an entry with yes_price > 0 in the group
PricedSources(g) == {g[i].source : i \in PricedEntries(g)}

\* C34: every group find_matching_markets or detect_arbitrage returns has
\* entries with yes_price > 0 of at least 2 distinct sources; a group whose
\* priced entries all come from one source is not reported.
C34_TwoPricedSources ==
    aggregator.pc \in {"matched", "detected"} =>
        \A key \in OutcomeKeys :
            Cardinality(PricedSources(GroupOf(key))) < 2 =>
                /\ ReportedAt(aggregator.matches, key) = {}
                /\ ReportedAt(aggregator.opportunities, key) = {}

(***************************************************************************)
(* aggregator.py: the arithmetic of _aggregate_entries on Python floats.   *)
(* The prices above are exact hundredths; here they are the IEEE 754       *)
(* doubles the clients produce, and each subtraction rounds its exact      *)
(* result to 53 significant bits, ties to even.  A double in [0, 1] that   *)
(* is a multiple of 2^-60 is the pair <<hi, lo>> of value                  *)
(* (hi * 2^30 + lo) * 2^-60; every double from 0.01 up is such a multiple, *)
(* and so are the differences of such doubles.                             *)
(***************************************************************************)
\* entries of a group
MaxFloatEntries == 2

Limb == 2^30

\* 1.0
FloatOne == <<Limb, 0>>

\* the double nearest to c / 100: float(prices[0]) of polymarket.py,
\* market.get('yes_bid', 0) / 100.0 of kalshi.py, the JSON number of predictit.py
float_of_hundredths(c) ==
    CASE c = 1 -> <<10737418, 257698038>>        \* 0x1.47ae147ae147bp-7
      [] c = 8 -> <<85899345, 987842480>>        \* 0x1.47ae147ae147bp-4
      [] c = 30 -> <<322122547, 214748352>>      \* 0x1.3333333333333p-2
      [] c = 45 -> <<483183820, 858993472>>      \* 0x1.ccccccccccccdp-2
      [] c = 46 -> <<493921239, 42949696>>       \* 0x1.d70a3d70a3d71p-2
      [] c = 52 -> <<558345748, 515396096>>      \* 0x1.0a3d70a3d70a4p-1
      [] c = 70 -> <<751619276, 858993408>>      \* 0x1.6666666666666p-1

FloatPrices == {1, 8, 30, 45, 46, 52, 70}

float_less(a, b) == a[1] < b[1] \/ (a[1] = b[1] /\ a[2] < b[2])

\* a - b for a >= b, exact
exact_sub(a, b) ==
    IF a[2] >= b[2] THEN <<a[1] - b[1], a[2] - b[2]>>
    ELSE <<a[1] - b[1] - 1, a[2] + Limb - b[2]>>

\* a + k for a small k, exact
exact_add(a, k) ==
    IF a[2] + k < Limb THEN <<a[1], a[2] + k>> ELSE <<a[1] + 1, a[2] + k - Limb>>

RECURSIVE bit_length(_)
bit_length(n) == IF n = 0 THEN 0 ELSE 1 + bit_length(n \div 2)

\* the spacing of the doubles around a, in units of 2^-60
ulp(a) ==
    LET bits == IF a[1] > 0 THEN 30 + bit_length(a[1]) ELSE bit_length(a[2])
    IN  IF bits > 53 THEN 2^(bits - 53) ELSE 1

\* the double nearest to the exact value a, ties to the even mantissa
round_to_double(a) ==
    LET q == ulp(a)
        low == a[2] % q
        down == <<a[1], a[2] - low>>
        up == exact_add(down, q)
        odd == (down[2] \div q) % 2 = 1
    IN  IF 2 * low < q THEN down
        ELSE IF 2 * low > q THEN up
        ELSE IF odd THEN up ELSE down

\* float.__sub__ on operands >= 0: the sign and the magnitude of a - b
float_sub(a, b) ==
    IF float_less(a, b) THEN [neg |-> TRUE, mag |-> round_to_double(exact_sub(b, a))]
    ELSE [neg |-> FALSE, mag |-> round_to_double(exact_sub(a, b))]

\* x >= m for a signed x and a threshold m > 0
float_at_least(x, m) == ~x.neg /\ ~float_less(x.mag, m)

\* the yes_price and no_price fields of a contract, in hundredths
FloatQuotes ==
    {[yes_price |-> y, no_price |-> n] :
        y \in FloatPrices, n \in {None, Some(0), Some(52)}}

\* one turn of the loop over the entries: yes_price = contract.yes_price or 0,
\* no_price = contract.no_price or (1 - yes_price), prices.append(...)
priced(source, q) ==
    LET yes_price == float_of_hundredths(q.yes_price)
        no_price == IF truthy(q.no_price) THEN float_of_hundredths(q.no_price[1])
                    ELSE float_sub(FloatOne, yes_price).mag
    IN  <<source, yes_price, no_price>>

\* max(prices, key=lambda x: x[k]): the first of the largest
RECURSIVE float_max_by(_, _)
float_max_by(prices, k) ==
    IF Len(prices) = 1 THEN prices[1]
    ELSE LET rest == float_max_by(Tail(prices), k)
         IN  IF float_less(prices[1][k], rest[k]) THEN rest ELSE prices[1]

\* min(p[1] for p in prices)
RECURSIVE float_min_yes(_)
float_min_yes(prices) ==
    IF Len(prices) = 1 THEN prices[1][2]
    ELSE LET rest == float_min_yes(Tail(prices))
         IN  IF float_less(rest, prices[1][2]) THEN rest ELSE prices[1][2]

\* arbitrage = (1 - best_no[2]) - min(p[1] for p in prices)
float_arbitrage(prices) ==
    float_sub(float_sub(FloatOne, float_max_by(prices, 3)[3]).mag, float_min_yes(prices))

\* the min_spread argument: 0.01 and 2^-57, both > 0
FloatMinSpreads == {float_of_hundredths(1), <<0, 8>>}

InitSpread ==
    /\ markets = {} /\ contracts = {} /\ price_snapshots = {} /\ sync_checkpoints = {}
    /\ seq = EmptySeq /\ last = NoCall /\ first_id = {} /\ gw = NoCall
    /\ workers = <<>> /\ job = NoCall
    /\ aggregator = [pc |-> "entries", entries |-> <<>>, prices |-> <<>>,
                     arbitrage_spread |-> None, min_spread |-> None, reported |-> FALSE]

\* one turn of "for source_name, market, contract in entries" for a contract
\* with a yes_price; the entries of a group alternate between two sources
SpreadEntry ==
    /\ aggregator.pc = "entries"
    /\ Len(aggregator.entries) < MaxFloatEntries
    /\ \E q \in FloatQuotes :
          LET source == IF Len(aggregator.entries) % 2 = 0 THEN "PredictIt" ELSE "Kalshi"
          IN  aggregator' = [aggregator EXCEPT
                  !.entries = Append(@, [source |-> source, yes_price |-> q.yes_price,
                                         no_price |-> q.no_price]),
                  !.prices = Append(@, priced(source, q))]
    /\ UNCHANGED <<markets, contracts, price_snapshots, sync_checkpoints, seq, last,
                   first_id, gw, workers, job>>

\* the rest of _aggregate_entries, for a group of at least 2 prices
SpreadAggregate ==
    /\ aggregator.pc = "entries"
    /\ Len(aggregator.prices) >= 2
    /\ aggregator' = [aggregator EXCEPT
            !.pc = "aggregated",
            !.arbitrage_spread = Some(float_arbitrage(aggregator.prices))]
    /\ UNCHANGED <<markets, contracts, price_snapshots, sync_checkpoints, seq, last,
                   first_id, gw, workers, job>>

\* detect_arbitrage: m.arbitrage_spread >= min_spread
SpreadDetect ==
    /\ aggregator.pc = "aggregated"
    /\ \E m \in FloatMinSpreads :
          aggregator' = [aggregator EXCEPT
              !.pc = "detected", !.min_spread = Some(m),
              !.reported = float_at_least(aggregator.arbitrage_spread[1], m)]
    /\ UNCHANGED <<markets, contracts, price_snapshots, sync_checkpoints, seq, last,
                   first_id, gw, workers, job>>

NextSpread == SpreadEntry \/ SpreadAggregate \/ SpreadDetect

SpecSpread == InitSpread /\ [][NextSpread]_vars

\* the entry has no quoted NO price
DerivedNo(e) == e.no_price = None \/ e.no_price = Some(0)

\* the spread is 0
SpreadIsZero(x) == x.mag = <<0, 0>>

\* the spread is <= 0
SpreadNotPositive(x) == x.neg \/ x.mag = <<0, 0>>

\* the entries of the lowest yes_price
LowestYes(es) == {i \in 1..Len(es) : \A k \in 1..Len(es) : es[i].yes_price <= es[k].yes_price}

\* C35: a group whose entries all have a derived no_price has a spread of
\* exactly 0 and is not returned by detect_arbitrage for a min_spread > 0; and
\* the spread is <= 0 whenever the entry of the lowest yes_price has a
\* derived no_price.
C35_DerivedSpreadIsZero ==
    aggregator.pc = "detected" =>
        LET es == aggregator.entries
            x == aggregator.arbitrage_spread[1]
        IN  /\ (\A i \in 1..Len(es) : DerivedNo(es[i])) =>
                   (SpreadIsZero(x) /\ ~aggregator.reported)
            /\ (\E i \in LowestYes(es) : DerivedNo(es[i])) => SpreadNotPositive(x)

\* C36: in every state of the ledger a completed checkpoint has no
\* error_message and a running checkpoint has no completed_at, checkpoints
\* that failed and were executed again by resume_backfill included.
C36_NoStaleErrorOrCompletion ==
    \A r \in sync_checkpoints :
        /\ r.status = "completed" => r.error_message = None
        /\ r.status = "running" => r.completed_at = None

(***************************************************************************)
(* scripts/backfill.py: two processes on one database.  Each process runs  *)
(* one command (python backfill.py --from .. --to .., or --resume) with    *)
(* its own BackfillJob and thread pool; a command may start while the      *)
(* tasks of the other are running.  job and workers hold one record per    *)
(* process and per (process, thread).                                      *)
(***************************************************************************)
\* the processes
OverlapProcesses == 2
\* the last day a range of these commands may end at
MaxOverlapDay == 2

Procs == 1..OverlapProcesses
PoolThreads == 1..Concurrency

\* sources = list(self.clients.keys())
OverlapSources == <<"PredictIt">>

InitOverlap ==
    /\ markets = {} /\ contracts = {} /\ price_snapshots = {} /\ sync_checkpoints = {}
    /\ seq = EmptySeq /\ last = NoCall /\ first_id = {} /\ gw = NoCall /\ aggregator = NoCall
    /\ workers = [x \in Procs \X PoolThreads |-> IdleTask]
    /\ job = [p \in Procs |-> [pc |-> "idle", cmd |-> "none", queue |-> <<>>]]

\* run_backfill of process p up to the submission of the pending tasks
OverlapRunBackfill(p) ==
    /\ job[p].pc = "idle"
    /\ \E e \in 1..MaxOverlapDay :
          LET windows == generate_windows(0, e, 1)
              plan == plan_checkpoints(source_window_pairs(OverlapSources, windows),
                         [tbl |-> sync_checkpoints, seq |-> seq.sync_checkpoints,
                          tasks |-> <<>>])
              pending_tasks == SelectSeq(plan.tasks, LAMBDA t : is_pending_task(plan.tbl, t))
          IN  /\ sync_checkpoints' = plan.tbl
              /\ seq' = [seq EXCEPT !.sync_checkpoints = plan.seq]
              /\ job' = [job EXCEPT ![p] =
                            [pc |-> IF pending_tasks = <<>> THEN "returned" ELSE "pool",
                             cmd |-> "run_backfill", queue |-> pending_tasks]]
    /\ UNCHANGED <<markets, contracts, price_snapshots, last, first_id, gw, aggregator, workers>>

\* resume_backfill of process p up to the submission of the pending checkpoints
OverlapResumeBackfill(p) ==
    /\ job[p].pc = "idle"
    /\ LET pending == ordered_by_window_start(
                          get_pending_checkpoints(sync_checkpoints, None, Some("backfill")))
           tasks == [i \in 1..Len(pending) |->
                        <<pending[i].source, Fromisoformat(pending[i].window_start),
                          Fromisoformat(pending[i].window_end), pending[i].id>>]
       IN  job' = [job EXCEPT ![p] =
                      [pc |-> IF tasks = <<>> THEN "returned" ELSE "pool",
                       cmd |-> "resume_backfill", queue |-> tasks]]
    /\ UNCHANGED <<markets, contracts, price_snapshots, sync_checkpoints, seq, last,
                   first_id, gw, aggregator, workers>>

\* a free thread of process p takes the next task of its pool and marks its
\* checkpoint running
OverlapTaskStart(p, w) ==
    /\ job[p].pc = "pool"
    /\ workers[<<p, w>>].pc = "idle"
    /\ job[p].queue # <<>>
    /\ LET t == Head(job[p].queue) IN
       /\ job' = [job EXCEPT ![p].queue = Tail(@)]
       /\ sync_checkpoints' = update_sync_checkpoint(sync_checkpoints, t[4],
                                  [NoUpdate EXCEPT !.status = Some("running")])
       /\ workers' = [workers EXCEPT ![<<p, w>>] =
                        [IdleTask EXCEPT !.pc = "fetch", !.source = t[1],
                                         !.window_start = t[2], !.window_end = t[3],
                                         !.checkpoint_id = t[4]]]
    /\ UNCHANGED <<markets, contracts, price_snapshots, seq, last, first_id, gw, aggregator>>

\* client.get_political_markets() returns the markets
OverlapTaskFetchOk(p, w) ==
    /\ workers[<<p, w>>].pc = "fetch"
    /\ workers' = [workers EXCEPT ![<<p, w>>] = next_record(@)]
    /\ UNCHANGED <<markets, contracts, price_snapshots, sync_checkpoints, seq, last,
                   first_id, gw, aggregator, job>>

\* client.get_political_markets() raises
OverlapTaskFetchRaises(p, w) ==
    /\ workers[<<p, w>>].pc = "fetch"
    /\ sync_checkpoints' = task_failed(sync_checkpoints, workers[<<p, w>>],
                                       "ConnectionError: fetch")
    /\ workers' = [workers EXCEPT ![<<p, w>>] = IdleTask]
    /\ UNCHANGED <<markets, contracts, price_snapshots, seq, last, first_id, gw,
                   aggregator, job>>

\* the SELECT of the task's current upsert
OverlapTaskSelect(p, w) ==
    /\ workers[<<p, w>>].pc = "select"
    /\ LET t == workers[<<p, w>>] IN
       workers' = [workers EXCEPT ![<<p, w>>] =
                      [t EXCEPT !.pc = "write",
                                !.existing = select_for(t.op, task_key(t)),
                                !.stats.fetched = IF t.op = "upsert_market"
                                                  THEN @ + 1 ELSE @]]
    /\ UNCHANGED <<markets, contracts, price_snapshots, sync_checkpoints, seq, last,
                   first_id, gw, aggregator, job>>

\* the UPDATE or INSERT of the task's current upsert; an IntegrityError is
\* caught by the task's handler
OverlapTaskWrite(p, w) ==
    /\ workers[<<p, w>>].pc = "write"
    /\ LET t == workers[<<p, w>>]
           res == write_for(t.op, task_key(t), task_vals(t), t.existing)
       IN  \/ /\ res.error = None
              /\ Committed(t.op, res)
              /\ workers' = [workers EXCEPT ![<<p, w>>] = after_write(t, res)]
           \/ /\ res.error # None
              /\ sync_checkpoints' = task_failed(sync_checkpoints, t, "IntegrityError: UNIQUE")
              /\ workers' = [workers EXCEPT ![<<p, w>>] = IdleTask]
              /\ UNCHANGED <<markets, contracts, price_snapshots, seq>>
    /\ UNCHANGED <<last, first_id, gw, aggregator, job>>

\* update_sync_checkpoint(checkpoint_id, status='completed', counts)
OverlapTaskComplete(p, w) ==
    /\ workers[<<p, w>>].pc = "complete"
    /\ LET t == workers[<<p, w>>] IN
       sync_checkpoints' = update_sync_checkpoint(sync_checkpoints, t.checkpoint_id,
            [status |-> Some("completed"), error_message |-> None,
             records_fetched |-> Some(t.stats.fetched),
             records_inserted |-> Some(t.stats.inserted),
             records_updated |-> Some(t.stats.updated),
             records_deduped |-> Some(t.stats.deduped)])
    /\ workers' = [workers EXCEPT ![<<p, w>>] = IdleTask]
    /\ UNCHANGED <<markets, contracts, price_snapshots, seq, last, first_id, gw,
                   aggregator, job>>

\* every future of process p has completed: its command returns
OverlapPoolDone(p) ==
    /\ job[p].pc = "pool"
    /\ job[p].queue = <<>>
    /\ \A w \in PoolThreads : workers[<<p, w>>].pc = "idle"
    /\ job' = [job EXCEPT ![p].pc = "returned"]
    /\ UNCHANGED <<markets, contracts, price_snapshots, sync_checkpoints, seq, last,
                   first_id, gw, aggregator, workers>>

NextOverlap ==
    \/ \E p \in Procs : OverlapRunBackfill(p)
    \/ \E p \in Procs : OverlapResumeBackfill(p)
    \/ \E p \in Procs, w \in PoolThreads : OverlapTaskStart(p, w)
    \/ \E p \in Procs, w \in PoolThreads : OverlapTaskFetchOk(p, w)
    \/ \E p \in Procs, w \in PoolThreads : OverlapTaskFetchRaises(p, w)
    \/ \E p \in Procs, w \in PoolThreads : OverlapTaskSelect(p, w)
    \/ \E p \in Procs, w \in PoolThreads : OverlapTaskWrite(p, w)
    \/ \E p \in Procs, w \in PoolThreads : OverlapTaskComplete(p, w)
    \/ \E p \in Procs : OverlapPoolDone(p)

SpecOverlap == InitOverlap /\ [][NextOverlap]_vars

\* the threads that are executing a task
Executing == {x \in Procs \X PoolThreads : workers[x].pc # "idle"}

\* C37: no checkpoint is executed by two workers at the same time, also when
\* a resume_backfill or a second run_backfill over the same range starts
\* while the tasks of a run_backfill are running; and the checkpoint a worker
\* is executing is never reset to pending.
C37_OneWorkerPerCheckpoint ==
    /\ \A x, y \in Executing :
          x # y => workers[x].checkpoint_id # workers[y].checkpoint_id
    /\ \A x \in Executing :
          \A r \in sync_checkpoints :
              r.id = workers[x].checkpoint_id => r.status # "pending"

(***************************************************************************)
(* scripts/sync.py: sync_source, run by the incremental sync before the    *)
(* backfill commands.  It writes to the same tables: a checkpoint of       *)
(* sync_type incremental for (since, now), and the snapshots of the        *)
(* response with snapshot_time = now.                                      *)
(***************************************************************************)
\* the contracts of one market: upsert_contract, upsert_price_snapshot
RECURSIVE sync_contracts(_, _, _, _, _)
sync_contracts(st, source, market_id, cs, snapshot_time) ==
    IF cs = <<>> THEN st
    ELSE LET c == Head(cs)
             rc == upsert_contract(st.contracts, st.seq.contracts, source, market_id,
                                   c.contract_id, c.v)
             rs == upsert_price_snapshot(st.price_snapshots, st.seq.price_snapshots, source,
                                         market_id, c.contract_id, snapshot_time, c.price)
         IN  sync_contracts(
                 [st EXCEPT !.contracts = rc.tbl, !.price_snapshots = rs.tbl,
                            !.seq.contracts = rc.seq, !.seq.price_snapshots = rs.seq,
                            !.stats.inserted = IF rs.inserted THEN @ + 1 ELSE @,
                            !.stats.deduped = IF rs.inserted THEN @ ELSE @ + 1],
                 source, market_id, Tail(cs), snapshot_time)

\* "for market in markets": upsert_market, then the market's contracts
RECURSIVE sync_markets(_, _, _, _)
sync_markets(st, source, ms, snapshot_time) ==
    IF ms = <<>> THEN st
    ELSE LET m == Head(ms)
             rm == upsert_market(st.markets, st.seq.markets, source, m.market_id, m.v)
         IN  sync_markets(
                 sync_contracts([st EXCEPT !.markets = rm.tbl, !.seq.markets = rm.seq,
                                           !.stats.fetched = @ + 1],
                                source, m.market_id, m.contracts, snapshot_time),
                 source, Tail(ms), snapshot_time)

\* the sources the incremental sync has a client for
SyncSources == Clients

\* sync_source(source, since) at the time now, its fetch and its writes succeeding
SyncSource ==
    /\ job.pc = "idle" /\ job.hist = <<>>
    /\ \A r \in sync_checkpoints : r.sync_type # "incremental"
    /\ \E source \in SyncSources, now_day \in 1..MaxBackfillDay :
          LET created == create_sync_checkpoint(sync_checkpoints, seq.sync_checkpoints, source,
                                                "incremental", Isoformat(0), Isoformat(now_day))
              running == update_sync_checkpoint(created.tbl, created.id,
                             [NoUpdate EXCEPT !.status = Some("running")])
              st == sync_markets([markets |-> markets, contracts |-> contracts,
                                  price_snapshots |-> price_snapshots,
                                  seq |-> [seq EXCEPT !.sync_checkpoints = created.seq],
                                  stats |-> ZeroStats],
                                 source, Feed(source), Isoformat(now_day))
          IN  /\ markets' = st.markets
              /\ contracts' = st.contracts
              /\ price_snapshots' = st.price_snapshots
              /\ seq' = st.seq
              /\ sync_checkpoints' = update_sync_checkpoint(running, created.id,
                     [status |-> Some("completed"), error_message |-> None,
                      records_fetched |-> Some(st.stats.fetched),
                      records_inserted |-> Some(st.stats.inserted),
                      records_updated |-> Some(st.stats.updated),
                      records_deduped |-> Some(st.stats.deduped)])
    /\ UNCHANGED <<last, first_id, gw, aggregator, workers, job>>

NextSync == SyncSource \/ NextBackfill

SpecSync == InitBackfill /\ [][NextSync]_vars

\* the windows of a range from day 0 to day e cut into pieces of size days
WindowsOfRange(e, size) ==
    {<<a, IF a + size < e THEN a + size ELSE e>> : a \in {k * size : k \in 0..e} \cap 0..(e - 1)}

\* the backfill checkpoints of the windows of the command, for the sources
\* that have a client
CreatedByRun ==
    {r \in sync_checkpoints :
        /\ r.sync_type = "backfill"
        /\ r.source \in Clients
        /\ <<r.window_start[2], r.window_end[2]>> \in WindowsOfRange(job.cmd[2], job.cmd[3])}

\* the run_backfill command returned and none of its tasks raised
RunReturnedClean ==
    /\ CommandReturned
    /\ job.cmd # "none"
    /\ job.cmd[1] = "run_backfill"
    /\ job.clean
    /\ job.raised = {}

\* C38: the skip decision of run_backfill looks at backfill checkpoints only:
\* whatever completed checkpoints of another sync_type exist for the same
\* source and window, once run_backfill has returned with every fetch
\* succeeding, every backfill checkpoint it created for a source with a
\* client is completed.
C38_SkipLooksAtBackfillOnly ==
    RunReturnedClean => \A r \in CreatedByRun : r.status = "completed"

\* C39: normalization is idempotent: normalizing the key that
\* _normalize_name returned gives that key again, so no token of the strip
\* list is left in the key or formed in it by the removal of other tokens,
\* punctuation or whitespace.
C39_NormalizeIdempotent ==
    aggregator.pc = "returned" => _normalize_name(aggregator.name) = aggregator.name

\* C40: generate_windows returns, for every start, end and window size that
\* parse_window accepts, a size of zero included; and what it returns when
\* start >= end is the empty list.
C40_GenerateWindowsTerminates ==
    /\ <>(gw.pc = "returned")
    /\ [](gw.pc = "returned" /\ gw.start_date >= gw.end_date => gw.windows = <<>>)

====
